---- MODULE Spec2Model ----
(***************************************************************************)
(* Document lifecycle engine of the Google-Drive-Clone backend             *)
(* (controller/userDocController.js): trash, restore, permanent delete,    *)
(* rename and upload as multi-step protocols over the object store         *)
(* (supabase.storage) and the metadata table UserDocuments.                *)
(*                                                                         *)
(* A handler is a sequence of steps, one per await: the adapter call and   *)
(* the synchronous code that follows it up to the next await.  Every       *)
(* adapter call can fail.  Strings are sequences of tokens: a token is a   *)
(* character ("/", " ", "_", "a") or a word that the code never splits     *)
(* ("documents", "trash", a user id).                                      *)
(***************************************************************************)
EXTENDS Integers, Sequences, FiniteSets, TLC

\* ------------------------------------------------------------- bounds
MaxDocs == 2
MaxWorkers == 2
MaxBatch == 2
MaxFailures == 2
MaxRequests == 4
MaxShares == 2
TicksPerTtl == 2
MaxTicks == 3

Users == {"u1", "u2"}
\* The users who upload; the others only send requests on documents they do not own.
Uploaders == {"u1"}
Workers == 1..MaxWorkers

\* Names a client uploads under, and the raw newName values of rename.
UploadNames == { <<"a">>, <<"b">> }
RawNames == { <<"a">>, <<" ", "b">>, <<" ">> }

\* ------------------------------------------------------------ strings
Slash == "/"
Space == " "
NoKey == <<>>

RECURSIVE StripLeadingSlashes(_)
\* s.replace(/^\/+/, '')
StripLeadingSlashes(s) ==
  IF s # <<>> /\ Head(s) = Slash THEN StripLeadingSlashes(Tail(s)) ELSE s

RECURSIVE TrimStart(_)
TrimStart(s) ==
  IF s # <<>> /\ Head(s) = Space THEN TrimStart(Tail(s)) ELSE s

RECURSIVE TrimEnd(_)
TrimEnd(s) ==
  IF s # <<>> /\ s[Len(s)] = Space THEN TrimEnd(SubSeq(s, 1, Len(s) - 1)) ELSE s

\* String.prototype.trim
Trim(s) == TrimEnd(TrimStart(s))

\* String(p).replace(/^\/+/, '').trim(), the normalisation of a stored key
NormKey(p) == Trim(StripLeadingSlashes(p))

IsSep(c) == c = "/" \/ c = "\\"

RECURSIVE ReplaceSeps(_)
\* s.replace(/[/\\]+/g, '_'): each run of separators becomes one "_"
ReplaceSeps(s) ==
  IF s = <<>> THEN <<>>
  ELSE IF IsSep(Head(s))
       THEN IF Tail(s) # <<>> /\ IsSep(Head(Tail(s)))
            THEN ReplaceSeps(Tail(s))
            ELSE <<"_">> \o ReplaceSeps(Tail(s))
       ELSE <<Head(s)>> \o ReplaceSeps(Tail(s))

\* The replacement without the trim.
SanitizeNameNoTrim(raw) == ReplaceSeps(raw)

\* newNameRaw.replace(/[/\\]+/g, '_').trim()
SanitizeName(raw) == Trim(ReplaceSeps(raw))

RECURSIVE StripTrailingSlashes(_)
StripTrailingSlashes(s) ==
  IF Len(s) > 1 /\ s[Len(s)] = Slash
  THEN StripTrailingSlashes(SubSeq(s, 1, Len(s) - 1)) ELSE s

\* Index of the last "/" of s, 0 when there is none.
LastSlash(s) ==
  LET idx == { i \in 1..Len(s) : s[i] = Slash }
  IN  IF idx = {} THEN 0 ELSE CHOOSE i \in idx : \A j \in idx : j <= i

\* path.posix.dirname
Dirname(p) ==
  LET s == StripTrailingSlashes(p)
      i == LastSlash(s)
  IN  IF i = 0 THEN <<".">>
      ELSE IF StripTrailingSlashes(SubSeq(s, 1, i)) = <<Slash>> THEN <<Slash>>
      ELSE StripTrailingSlashes(SubSeq(s, 1, i - 1))

\* s.startsWith(prefix)
StartsWith(s, prefix) ==
  Len(s) >= Len(prefix) /\ SubSeq(s, 1, Len(prefix)) = prefix

\* `documents/${userId}/${safeFileName}`
UploadKey(uid, name) == <<"documents", Slash, uid, Slash>> \o name

\* `trash/${userId}/`
TrashPrefix(uid) == <<"trash", Slash, uid, Slash>>

\* A trash key without the owner's folder.
TrashKeyNoOwner(uid, srcPath) == <<"trash", Slash>> \o srcPath

\* `trash/${userId}/${srcPath}`
TrashKey(uid, srcPath) == TrashPrefix(uid) \o srcPath

\* A new key without the directory of the old one.
RenameKeyNoDir(oldKey, newName) == newName

\* `${dir}/${newName}`
RenameKey(oldKey, newName) == Dirname(oldKey) \o <<Slash>> \o newName


\* -------------------------------------------------------------- state
VARIABLES
  storage,  \* bucket User-Documents: live key -> content of the object
  docs,     \* table UserDocuments: id -> row
  nextId,   \* the id (and the content token) of the next upload
  reqs,     \* per worker: the request it is handling and its position
  hist,     \* per worker: storage and docs as they were when the handler started
            \* on its current item
  failures, \* adapter calls that have failed so far
  admitted, \* requests that have arrived so far
  uploaded, \* id -> the row of the document as it was inserted
  shares,   \* table documentshares: share id -> row
  nextShare, \* the share id the next uuidv4() returns
  now       \* Date.now(), in seconds

vars == <<storage, docs, nextId, reqs, hist, failures, admitted, uploaded,
          shares, nextShare, now>>

\* The outcomes an adapter call can have: success, or an error while the
\* failure budget lasts.
Outcomes == IF failures < MaxFailures THEN BOOLEAN ELSE {TRUE}

Outcome(ok) == failures' = IF ok THEN failures ELSE failures + 1

DocIds == 1..MaxDocs

Live(st, k) == k \in DOMAIN st

\* storage.copy(src, dst) that succeeded
CopyResult(st, src, dst) ==
  [k \in DOMAIN st \cup {dst} |-> IF k = dst THEN st[src] ELSE st[k]]

\* storage.remove([k]) that succeeded; removing an absent key changes nothing
RemoveResult(st, k) == [j \in DOMAIN st \ {k} |-> st[j]]

\* storage.upload(k, bytes, {upsert: false}) that succeeded
PutResult(st, k, c) == [j \in DOMAIN st \cup {k} |-> IF j = k THEN c ELSE st[j]]

\* .update(patch).eq('id', id).eq('uid', uid) that succeeded: no row, no change
UpdateResult(db, id, uid, patch) ==
  IF id \in DOMAIN db /\ db[id].uid = uid
  THEN [db EXCEPT ![id] = [f \in DOMAIN db[id] |->
                             IF f \in DOMAIN patch THEN patch[f] ELSE db[id][f]]]
  ELSE db

\* .delete().eq('id', id).eq('uid', uid) that succeeded
DeleteResult(db, id, uid) ==
  IF id \in DOMAIN db /\ db[id].uid = uid
  THEN [j \in DOMAIN db \ {id} |-> db[j]]
  ELSE db

\* .insert([row]) that succeeded.  The row names neither status nor trash_path;
\* the handlers only compare status with 'trashed' and test trash_path for
\* emptiness, so the new row is written as active with no trash path.  Nor
\* does it name sharedTo or sharedFrom, which every handler reads as [] unless
\* they are arrays.
InsertResult(db, id, uid, name, key) ==
  [j \in DOMAIN db \cup {id} |->
     IF j = id
     THEN [id |-> id, uid |-> uid, fileName |-> name, path_of_file |-> key,
           status |-> "active", trash_path |-> NoKey, sharedTo |-> {},
           sharedFrom |-> {}]
     ELSE db[j]]

\* ----------------------------------------------------------- requests
\* A signed URL names the key it was signed for, the second it was minted in and
\* the seconds it is valid for; NoUrl and NoTime are the null of signed_url and
\* of expires_at.
NoUrl == [key |-> NoKey, minted |-> -1, ttl |-> 0]

NoTime == -1

NoGrant == [id |-> 0, doc_id |-> 0, uid |-> "none", share_type |-> "",
            signed_url |-> NoUrl, expires_at |-> NoTime]

NoResp == [code |-> 0, skipped |-> FALSE, warning |-> "", error |-> "",
           missing |-> <<>>, results |-> <<>>, viewUrl |-> NoUrl, unresolved |-> {}]

IdleReq == [pc |-> "idle", op |-> "none", uid |-> "none", single |-> FALSE,
            ids |-> <<>>, snap |-> <<>>, idx |-> 0, src |-> NoKey, dst |-> NoKey,
            newNameRaw |-> <<>>, newName |-> <<>>, content |-> 0, missing |-> <<>>, results |-> <<>>,
            calls |-> <<>>, resp |-> NoResp,
            shareType |-> "", emails |-> {}, mode |-> "", recipients |-> {},
            share |-> 0, grant |-> NoGrant, url |-> NoUrl, expires |-> NoTime,
            updated |-> {}, viewUrl |-> NoUrl, unresolved |-> {}, outcomes |-> <<>>]

NoHist == [storage |-> <<>>, docs |-> <<>>]

\* One per-item entry of a batch response.
Entry(id, ok, skipped, reason, warning, error) ==
  [id |-> id, ok |-> ok, skipped |-> skipped, reason |-> reason,
   warning |-> warning, error |-> error]

\* The record of one adapter call: its name, its key arguments and whether it
\* succeeded.  A handler's calls are kept in the order it issued them, each with
\* the batch item it was issued for.
Call(name, a, b, ok) == [call |-> name, a |-> a, b |-> b, ok |-> ok]

Logged(r, c) ==
  [r EXCEPT !.calls = Append(r.calls, [call |-> c.call, a |-> c.a, b |-> c.b,
                                       ok |-> c.ok, item |-> r.idx])]

\* res.status(code).json(...) or next(new AppError(..., code)) was reached: one
\* more outcome of the request, the codes in the order they were reached
Reached(r, code) == Append(r.outcomes, code)

\* res.status(code).json(...) or next(new AppError(..., code)): the request is over
Respond(r, code, skipped, warning, error) ==
  [r EXCEPT !.pc = "done", !.outcomes = Reached(r, code),
            !.resp = [code |-> code, skipped |-> skipped, warning |-> warning,
                      error |-> error, missing |-> r.missing, results |-> r.results,
                      viewUrl |-> r.viewUrl, unresolved |-> {}]]

Push(r, e) == [r EXCEPT !.results = Append(r.results, e)]

\* Every order in which the database can return the rows with ids in S.
Orders(S) ==
  { p \in [1..Cardinality(S) -> S] : \A i, j \in 1..Cardinality(S) : i # j => p[i] # p[j] }

RECURSIVE FilterMissing(_, _)
\* ids.filter((id) => !foundIds.has(id))
FilterMissing(ids, found) ==
  IF ids = <<>> THEN <<>>
  ELSE IF Head(ids) \in found THEN FilterMissing(Tail(ids), found)
       ELSE <<Head(ids)>> \o FilterMissing(Tail(ids), found)

\* .select('*').in('id', ids).eq('uid', uid)
OwnedAmong(db, ids, uid) ==
  { id \in DOMAIN db : db[id].uid = uid /\ \E i \in 1..Len(ids) : ids[i] = id }

\* The id lists a client can send: CSV lists of up to MaxBatch distinct ids.
IdLists ==
  { l \in UNION { [1..n -> DocIds] : n \in 1..MaxBatch } :
      \A i, j \in DOMAIN l : i # j => l[i] # l[j] }


\* A request arrives at worker w and runs up to its first await, where r is its
\* position; the arrival records the state it found.
ArriveAt(w, r) ==
  /\ reqs[w].pc = "idle"
  /\ admitted < MaxRequests
  /\ admitted' = admitted + 1
  /\ UNCHANGED uploaded
  /\ reqs' = [reqs EXCEPT ![w] = r]
  /\ hist' = [hist EXCEPT ![w] = [storage |-> storage, docs |-> docs]]

\* The handler at worker w moves on to position r; the caller has set storage'
\* and docs'.  Moving to the next item of a batch records the state it starts from.
GotoAt(w, r) ==
  /\ UNCHANGED admitted
  /\ uploaded' = [id \in DOMAIN docs' |->
                    IF id \in DOMAIN uploaded THEN uploaded[id] ELSE docs'[id]]
  /\ reqs' = [reqs EXCEPT ![w] = r]
  /\ hist' = IF r.idx # reqs[w].idx
             THEN [hist EXCEPT ![w] = [storage |-> storage', docs |-> docs']]
             ELSE hist

\* The same two for the handlers that touch neither the share table nor the clock.
Arrive(w, r) == ArriveAt(w, r) /\ UNCHANGED <<shares, nextShare, now>>

Goto(w, r) == GotoAt(w, r) /\ UNCHANGED <<shares, nextShare, now>>

At(w, op, pc) == reqs[w].op = op /\ reqs[w].pc = pc

\* The document the handler is working on.
Cur(r) == r.snap[r.idx]

\* The request record of a handler that has just been entered.
NewReq(op, u, single, ids) ==
  [IdleReq EXCEPT !.op = op, !.uid = u, !.single = single, !.ids = ids]

\* A batch that reports no id as missing.
WithRowsNoMissing(r, order, found) ==
  [r EXCEPT !.snap = [i \in DOMAIN order |-> docs[order[i]]]]

\* The rows a batch select returned, in the order it returned them.
WithRows(r, order, found) ==
  [r EXCEPT !.snap = [i \in DOMAIN order |-> docs[order[i]]],
            !.missing = FilterMissing(r.ids, found)]

\* ------------------------------------------- moveToTrash (lines 13-70)
\* A loop that does not look at the status.
RECURSIVE TrashLoopNoSkip(_, _)
TrashLoopNoSkip(r, i) ==
  IF i > Len(r.snap) THEN Respond(r, 200, FALSE, "", "")
  ELSE LET doc == r.snap[i]
           srcPath == NormKey(doc.path_of_file)
       IN  IF doc.uid # r.uid
           THEN TrashLoopNoSkip(Push(r, Entry(doc.id, FALSE, FALSE, "", "", "unauthorized")), i + 1)
           ELSE IF srcPath = <<>>
           THEN TrashLoopNoSkip(Push(r, Entry(doc.id, FALSE, FALSE, "", "", "invalid_path")), i + 1)
           ELSE [r EXCEPT !.pc = "mt_probe", !.idx = i, !.src = srcPath,
                          !.dst = TrashKey(r.uid, srcPath)]

RECURSIVE TrashLoop(_, _)
\* for (const doc of docs) of deleteUserDocTemp from item i, up to the first await
\* inside moveToTrash or to the response
TrashLoop(r, i) ==
  IF i > Len(r.snap) THEN Respond(r, 200, FALSE, "", "")
  ELSE LET doc == r.snap[i]
           srcPath == NormKey(doc.path_of_file)
       IN  IF doc.status = "trashed"
           THEN TrashLoop(Push(r, Entry(doc.id, FALSE, TRUE, "already_trashed", "", "")), i + 1)
           ELSE IF doc.uid # r.uid
           THEN TrashLoop(Push(r, Entry(doc.id, FALSE, FALSE, "", "", "unauthorized")), i + 1)
           ELSE IF srcPath = <<>>
           THEN TrashLoop(Push(r, Entry(doc.id, FALSE, FALSE, "", "", "invalid_path")), i + 1)
           ELSE [r EXCEPT !.pc = "mt_probe", !.idx = i, !.src = srcPath,
                          !.dst = TrashKey(r.uid, srcPath)]

\* An error of one item that ends the request, as on the single-id route.
MtErrorAborts(r, code) ==
  Respond(r, IF code = "unauthorized" THEN 403 ELSE 500, FALSE, "", code)

\* moveToTrash returned {error}: lines 490-499 (single), 536-537 (batch)
MtError(r, code) ==
  IF r.single
  THEN Respond(r, IF code = "unauthorized" THEN 403 ELSE 500, FALSE, "", code)
  ELSE TrashLoop(Push(r, Entry(Cur(r).id, FALSE, FALSE, "", "", code)), r.idx + 1)

\* moveToTrash returned {ok: true, warning?}: lines 501-507 (single), 536-537 (batch)
MtOk(r, warning) ==
  IF r.single
  THEN Respond(r, 200, FALSE, warning, "")
  ELSE TrashLoop(Push(r, Entry(Cur(r).id, TRUE, FALSE, "", warning, "")), r.idx + 1)

\* A copy whose failure is not looked at.
MtAfterCopyUnchecked(r, copied) == [r EXCEPT !.pc = "mt_remove"]

\* A remove whose failure is not undone.
MtAfterRemoveNoUndo(r, removed) == [r EXCEPT !.pc = "mt_update"]

\* A failed metadata update reported as the error of the request.
MtAfterUpdateAsError(r, updated) ==
  IF updated THEN MtOk(r, "") ELSE MtError(r, "db_update_failed")

\* lines 28-30: the probe decides between the copy and object_not_found
MtAfterProbe(r, signed) ==
  IF signed THEN [r EXCEPT !.pc = "mt_copy"] ELSE MtError(r, "object_not_found")

\* lines 35-40: the copy decides between the remove and copy_failed
MtAfterCopy(r, copied) ==
  IF copied THEN [r EXCEPT !.pc = "mt_remove"] ELSE MtError(r, "copy_failed")

\* line 45: the remove decides between the metadata update and the undo
MtAfterRemove(r, removed) ==
  [r EXCEPT !.pc = IF removed THEN "mt_update" ELSE "mt_undo"]

\* lines 59-69: a failed metadata update is a warning on a success
MtAfterUpdate(r, updated) == MtOk(r, IF updated THEN "" ELSE "db_update_failed")

\* The patch without the trash path.
MtPatchStatusOnly(r) == [status |-> "trashed"]

\* line 55: {status: 'trashed', trash_path: distPath}
MtPatch(r) == [status |-> "trashed", trash_path |-> r.dst]

\* deleteUserDocTemp, DELETE /delete/:docId, lines 469-489: the single-id route
\* reads the row and enters moveToTrash
TrashSingle(w, u, id) ==
  /\ UNCHANGED <<storage, docs, nextId>>
  /\ \E ok \in Outcomes : Outcome(ok) /\
       LET r == Logged(NewReq("trash", u, TRUE, <<id>>), Call("select", NoKey, NoKey, ok))
           found == ok /\ id \in DOMAIN docs /\ docs[id].uid = r.uid
       IN  Arrive(w, IF ~found THEN Respond(r, 404, FALSE, "", "not_found")
                     ELSE IF docs[id].status = "trashed"
                     THEN Respond(r, 200, TRUE, "", "")
                     ELSE LET r1 == TrashLoop([r EXCEPT !.snap = <<docs[id]>>], 1)
                          IN  IF r1.pc = "done"
                              THEN MtError([r1 EXCEPT !.idx = 1, !.results = <<>>,
                                                      !.outcomes = <<>>],
                                           r1.results[1].error)
                              ELSE r1)

\* deleteUserDocTemp, DELETE /delete/batch/:docIds, lines 510-538: the batch route
\* reads the rows and starts the loop
TrashBatch(w, u, ids) ==
  /\ UNCHANGED <<storage, docs, nextId>>
  /\ \E ok \in Outcomes : Outcome(ok) /\
       LET r == Logged(NewReq("trash", u, FALSE, ids), Call("select", NoKey, NoKey, ok))
           found == OwnedAmong(docs, r.ids, r.uid)
       IN  IF ~ok THEN Arrive(w, Respond(r, 500, FALSE, "", "fetch_error"))
           ELSE IF found = {} THEN Arrive(w, Respond(r, 404, FALSE, "", "not_found"))
           ELSE \E order \in Orders(found) : Arrive(w, TrashLoop(WithRows(r, order, found), 1))

\* lines 25-30: createSignedUrl(srcPath, 30) as the existence probe
MtProbe(w) ==
  /\ At(w, "trash", "mt_probe")
  /\ UNCHANGED <<storage, docs, nextId>>
  /\ \E ok \in Outcomes : Outcome(ok) /\
       LET signed == ok /\ Live(storage, reqs[w].src)
           r == Logged(reqs[w], Call("sign", reqs[w].src, NoKey, signed))
       IN  Goto(w, MtAfterProbe(r, signed))

\* lines 32-40: copy(srcPath, distPath)
MtCopy(w) ==
  /\ At(w, "trash", "mt_copy")
  /\ UNCHANGED <<docs, nextId>>
  /\ \E ok \in Outcomes : Outcome(ok) /\
       LET copied == ok /\ Live(storage, reqs[w].src)
           r == Logged(reqs[w], Call("copy", reqs[w].src, reqs[w].dst, copied))
       IN  /\ storage' = IF copied THEN CopyResult(storage, r.src, r.dst) ELSE storage
           /\ Goto(w, MtAfterCopy(r, copied))

\* lines 42-45: remove([srcPath])
MtRemove(w) ==
  /\ At(w, "trash", "mt_remove")
  /\ UNCHANGED <<docs, nextId>>
  /\ \E ok \in Outcomes : Outcome(ok) /\
       LET r == Logged(reqs[w], Call("remove", reqs[w].src, NoKey, ok))
       IN  /\ storage' = IF ok THEN RemoveResult(storage, r.src) ELSE storage
           /\ Goto(w, MtAfterRemove(r, ok))

\* lines 46-50: remove([distPath]).catch(() => {}), then {error: 'remove_failed'}
MtUndo(w) ==
  /\ At(w, "trash", "mt_undo")
  /\ UNCHANGED <<docs, nextId>>
  /\ \E ok \in Outcomes : Outcome(ok) /\
       LET r == Logged(reqs[w], Call("remove", reqs[w].dst, NoKey, ok))
       IN  /\ storage' = IF ok THEN RemoveResult(storage, r.dst) ELSE storage
           /\ Goto(w, MtError(r, "remove_failed"))

\* lines 53-69: the metadata update
MtUpdate(w) ==
  /\ At(w, "trash", "mt_update")
  /\ UNCHANGED <<storage, nextId>>
  /\ \E ok \in Outcomes : Outcome(ok) /\
       LET r == Logged(reqs[w], Call("update", NoKey, NoKey, ok))
       IN  /\ docs' = IF ok THEN UpdateResult(docs, Cur(r).id, r.uid, MtPatch(r)) ELSE docs
           /\ Goto(w, MtAfterUpdate(r, ok))

\* ------------------------------------------- uploadUserDocs (lines 77-137)
\* POST /upload with one file, lines 77-101: the content token and the row id are
\* drawn here; upload(storagePath, buffer, {upsert: false})
UploadPut(w, u, name) ==
  /\ nextId <= MaxDocs
  /\ nextId' = nextId + 1
  /\ UNCHANGED docs
  /\ \E ok \in Outcomes : Outcome(ok) /\
       LET key == UploadKey(u, name)
           put == ok /\ ~Live(storage, key)
           r == Logged([NewReq("upload", u, TRUE, <<>>) EXCEPT
                          !.newName = name, !.dst = key, !.content = nextId],
                       Call("put", key, NoKey, put))
       IN  /\ storage' = IF put THEN PutResult(storage, key, nextId) ELSE storage
           /\ Arrive(w, IF put THEN [r EXCEPT !.pc = "up_insert"]
                        ELSE Respond(r, 400, FALSE, "", "upload_failed"))

\* lines 114-136: a failed insert calls next(new AppError(..., 400)) inside the
\* callback of files.map and returns from the callback only: Promise.all
\* resolves and the handler goes on to res.status(201).json(...).  The error
\* handler has answered by then, so the client sees the 400.
UpAfterInsert(r, ok) ==
  IF ok THEN Respond(r, 201, FALSE, "", "")
  ELSE LET r1 == Respond(r, 400, FALSE, "", "insert_failed")
       IN  [r1 EXCEPT !.outcomes = Reached(r1, 201)]

\* lines 103-113: insert of the metadata row
UpInsert(w) ==
  /\ At(w, "upload", "up_insert")
  /\ UNCHANGED <<storage, nextId>>
  /\ \E ok \in Outcomes : Outcome(ok) /\
       LET r == Logged(reqs[w], Call("insert", NoKey, NoKey, ok))
       IN  /\ docs' = IF ok THEN InsertResult(docs, r.content, r.uid, r.newName, r.dst)
                      ELSE docs
           /\ Goto(w, UpAfterInsert(r, ok))

\* ------------------------------------------- restoreUserDoc (lines 654-785)
RECURSIVE RestoreLoop(_, _)
\* for (const doc of docs) from item i, up to the first await or to the response
RestoreLoop(r, i) ==
  IF i > Len(r.snap) THEN Respond(r, 200, FALSE, "", "")
  ELSE LET doc == r.snap[i]
           srcTrashKey == NormKey(doc.trash_path)
           prefix == TrashPrefix(r.uid)
           canRebuild == doc.path_of_file # NoKey \/ StartsWith(srcTrashKey, prefix)
           dstOriginalKey ==
             IF doc.path_of_file # NoKey THEN NormKey(doc.path_of_file)
             ELSE SubSeq(srcTrashKey, Len(prefix) + 1, Len(srcTrashKey))
       IN  IF doc.status # "trashed"
           THEN RestoreLoop(Push(r, Entry(doc.id, FALSE, TRUE, "not_trashed", "", "")), i + 1)
           ELSE IF doc.trash_path = NoKey
           THEN RestoreLoop(Push(r, Entry(doc.id, FALSE, TRUE, "missing_trash_path", "", "")), i + 1)
           ELSE IF ~canRebuild
           THEN RestoreLoop(Push(r, Entry(doc.id, FALSE, FALSE, "", "",
                                          "cannot_reconstruct_original_path")), i + 1)
           ELSE IF dstOriginalKey = <<>>
           THEN RestoreLoop(Push(r, Entry(doc.id, FALSE, FALSE, "", "", "invalid_original_path")), i + 1)
           ELSE [r EXCEPT !.pc = "rs_copy", !.idx = i, !.src = srcTrashKey,
                          !.dst = dstOriginalKey]

\* lines 739-746: the copy decides between the remove and the item's copy_failed
RsAfterCopy(r, copied) ==
  IF copied THEN [r EXCEPT !.pc = "rs_remove"]
  ELSE RestoreLoop(Push(r, Entry(Cur(r).id, FALSE, FALSE, "", "", "copy_failed")), r.idx + 1)

\* A failed remove that ends the item.
RsAfterRemoveAbort(r, removed) ==
  IF removed THEN [r EXCEPT !.pc = "rs_update"]
  ELSE RestoreLoop(Push(r, Entry(Cur(r).id, FALSE, FALSE, "", "", "trash_remove_failed")),
                   r.idx + 1)

\* lines 751-758: a failed remove is pushed as a warning and the update follows
RsAfterRemove(r, removed) ==
  [(IF removed THEN r
    ELSE Push(r, Entry(Cur(r).id, FALSE, FALSE, "", "trash_remove_failed", "")))
   EXCEPT !.pc = "rs_update"]

\* lines 770-778: the item's last entry, then the next item
RsAfterUpdate(r, updated) ==
  RestoreLoop(Push(r, IF updated THEN Entry(Cur(r).id, TRUE, FALSE, "", "", "")
                      ELSE Entry(Cur(r).id, FALSE, FALSE, "", "db_update_failed", "")),
              r.idx + 1)

\* lines 762-766: {status: 'active', path_of_file: dstOriginalKey, trash_path: null}
RsPatch(r) == [status |-> "active", path_of_file |-> r.dst, trash_path |-> NoKey]

\* POST /restore/:docId and /restore/batch/:docIds, lines 672-699
RestoreFetch(w, u, ids) ==
  /\ UNCHANGED <<storage, docs, nextId>>
  /\ \E ok \in Outcomes : Outcome(ok) /\
       LET r == Logged(NewReq("restore", u, FALSE, ids), Call("select", NoKey, NoKey, ok))
           found == OwnedAmong(docs, r.ids, r.uid)
       IN  IF ~ok THEN Arrive(w, Respond(r, 500, FALSE, "", "fetch_error"))
           ELSE IF found = {} THEN Arrive(w, Respond(r, 404, FALSE, "", "not_found"))
           ELSE \E order \in Orders(found) : Arrive(w, RestoreLoop(WithRows(r, order, found), 1))

\* lines 736-746: copy(srcTrashKey, dstOriginalKey)
RsCopy(w) ==
  /\ At(w, "restore", "rs_copy")
  /\ UNCHANGED <<docs, nextId>>
  /\ \E ok \in Outcomes : Outcome(ok) /\
       LET copied == ok /\ Live(storage, reqs[w].src)
           r == Logged(reqs[w], Call("copy", reqs[w].src, reqs[w].dst, copied))
       IN  /\ storage' = IF copied THEN CopyResult(storage, r.src, r.dst) ELSE storage
           /\ Goto(w, RsAfterCopy(r, copied))

\* lines 748-758: remove([srcTrashKey])
RsRemove(w) ==
  /\ At(w, "restore", "rs_remove")
  /\ UNCHANGED <<docs, nextId>>
  /\ \E ok \in Outcomes : Outcome(ok) /\
       LET r == Logged(reqs[w], Call("remove", reqs[w].src, NoKey, ok))
       IN  /\ storage' = IF ok THEN RemoveResult(storage, r.src) ELSE storage
           /\ Goto(w, RsAfterRemove(r, ok))

\* lines 760-778: the metadata update
RsUpdate(w) ==
  /\ At(w, "restore", "rs_update")
  /\ UNCHANGED <<storage, nextId>>
  /\ \E ok \in Outcomes : Outcome(ok) /\
       LET r == Logged(reqs[w], Call("update", NoKey, NoKey, ok))
       IN  /\ docs' = IF ok THEN UpdateResult(docs, Cur(r).id, r.uid, RsPatch(r)) ELSE docs
           /\ Goto(w, RsAfterUpdate(r, ok))

\* -------------------------------------- permanentlyDeleteDocs (lines 559-652)
\* A loop that skips active rows only.
RECURSIVE PermDeleteLoopNoPathCheck(_, _)
PermDeleteLoopNoPathCheck(r, i) ==
  IF i > Len(r.snap) THEN Respond(r, 200, FALSE, "", "")
  ELSE LET doc == r.snap[i]
       IN  IF doc.status # "trashed"
           THEN PermDeleteLoopNoPathCheck(
                  Push(r, Entry(doc.id, FALSE, TRUE, "not_trashed", "", "")), i + 1)
           ELSE [r EXCEPT !.pc = "pd_remove", !.idx = i, !.src = NormKey(doc.trash_path)]

RECURSIVE PermDeleteLoop(_, _)
\* for (const doc of docs) from item i, up to the first await or to the response
PermDeleteLoop(r, i) ==
  IF i > Len(r.snap) THEN Respond(r, 200, FALSE, "", "")
  ELSE LET doc == r.snap[i]
           storageKey == NormKey(doc.trash_path)
       IN  IF doc.status # "trashed" \/ doc.trash_path = NoKey
           THEN PermDeleteLoop(Push(r, Entry(doc.id, FALSE, TRUE,
                                             IF doc.status # "trashed" THEN "not_trashed"
                                             ELSE "missing_trash_path", "", "")), i + 1)
           ELSE IF storageKey = <<>>
           THEN PermDeleteLoop(Push(r, Entry(doc.id, FALSE, FALSE, "", "", "invalid_trash_path")), i + 1)
           ELSE [r EXCEPT !.pc = "pd_remove", !.idx = i, !.src = storageKey]

\* A failed remove that ends the item.
PdAfterRemoveAbort(r, removed) ==
  IF removed THEN [Push(r, Entry(Cur(r).id, TRUE, FALSE, "", "", "")) EXCEPT !.pc = "pd_delete"]
  ELSE PermDeleteLoop(Push(r, Entry(Cur(r).id, FALSE, FALSE, "", "", "storage_remove_failed")),
                      r.idx + 1)

\* lines 624-633: either outcome of the remove is pushed and the row delete follows
PdAfterRemove(r, removed) ==
  [Push(r, IF removed THEN Entry(Cur(r).id, TRUE, FALSE, "", "", "")
           ELSE Entry(Cur(r).id, FALSE, FALSE, "", "storage_remove_failed", ""))
   EXCEPT !.pc = "pd_delete"]

\* lines 640-645: a failed row delete is pushed as a warning, then the next item
PdAfterDelete(r, deleted) ==
  PermDeleteLoop(IF deleted THEN r
                 ELSE Push(r, Entry(Cur(r).id, FALSE, FALSE, "", "db_row_delete_failed", "")),
                 r.idx + 1)

\* DELETE /permdelete/:docId and /permdelete/batch/:docIds, lines 576-603
PermDeleteFetch(w, u, ids) ==
  /\ UNCHANGED <<storage, docs, nextId>>
  /\ \E ok \in Outcomes : Outcome(ok) /\
       LET r == Logged(NewReq("permdelete", u, FALSE, ids), Call("select", NoKey, NoKey, ok))
           found == OwnedAmong(docs, r.ids, r.uid)
       IN  IF ~ok THEN Arrive(w, Respond(r, 500, FALSE, "", "fetch_error"))
           ELSE IF found = {} THEN Arrive(w, Respond(r, 404, FALSE, "", "not_found"))
           ELSE \E order \in Orders(found) : Arrive(w, PermDeleteLoop(WithRows(r, order, found), 1))

\* lines 621-633: remove([storageKey])
PdRemove(w) ==
  /\ At(w, "permdelete", "pd_remove")
  /\ UNCHANGED <<docs, nextId>>
  /\ \E ok \in Outcomes : Outcome(ok) /\
       LET r == Logged(reqs[w], Call("remove", reqs[w].src, NoKey, ok))
       IN  /\ storage' = IF ok THEN RemoveResult(storage, r.src) ELSE storage
           /\ Goto(w, PdAfterRemove(r, ok))

\* lines 635-645: delete of the metadata row
PdDelete(w) ==
  /\ At(w, "permdelete", "pd_delete")
  /\ UNCHANGED <<storage, nextId>>
  /\ \E ok \in Outcomes : Outcome(ok) /\
       LET r == Logged(reqs[w], Call("delete", NoKey, NoKey, ok))
       IN  /\ docs' = IF ok THEN DeleteResult(docs, Cur(r).id, r.uid) ELSE docs
           /\ Goto(w, PdAfterDelete(r, ok))

\* ------------------------------------------- renameUserDoc (lines 787-894)
\* A rename that writes the metadata right after the copy.
RnAfterCopyThenUpdate(r, copied) ==
  IF copied THEN [r EXCEPT !.pc = "rn_update"]
  ELSE Respond(r, 500, FALSE, "", "copy_failed")

\* A failed metadata update answered without a rollback.
RnAfterUpdateNoRollback(r, updated) ==
  IF updated THEN Respond(r, 200, FALSE, "", "")
  ELSE Respond(r, 500, FALSE, "", "db_update_failed")

\* lines 838-839: the probe decides between the copy and the 404
RnAfterProbe(r, signed) ==
  IF signed THEN [r EXCEPT !.pc = "rn_copy"]
  ELSE Respond(r, 404, FALSE, "", "object_not_found")

\* lines 844-850: the copy decides between the remove and the 500
RnAfterCopy(r, copied) ==
  IF copied THEN [r EXCEPT !.pc = "rn_remove"]
  ELSE Respond(r, 500, FALSE, "", "copy_failed")

\* line 855: the remove decides between the metadata update and the undo
RnAfterRemove(r, removed) ==
  [r EXCEPT !.pc = IF removed THEN "rn_update" ELSE "rn_undo"]

\* lines 875, 888-893: the update decides between the 200 and the rollback
RnAfterUpdate(r, updated) ==
  IF updated THEN Respond(r, 200, FALSE, "", "") ELSE [r EXCEPT !.pc = "rn_rbcopy"]

\* lines 877-885: the new key is removed only after a rollback copy that succeeded
RnAfterRbCopy(r, copied) ==
  IF copied THEN [r EXCEPT !.pc = "rn_rbremove"]
  ELSE Respond(r, 500, FALSE, "", "db_update_failed")

\* lines 867-871: {fileName: newName, path_of_file: newKey} (updated_at is not modelled)
RnPatch(r) == [fileName |-> r.newName, path_of_file |-> r.dst]

\* PATCH /rename/:docId, lines 797-801: a name that sanitizes to nothing is
\* rejected before any adapter call
RenameReject(w, u, id, raw) ==
  /\ SanitizeName(raw) = <<>>
  /\ UNCHANGED <<storage, docs, nextId, failures>>
  /\ Arrive(w, Respond([NewReq("rename", u, TRUE, <<id>>) EXCEPT !.newNameRaw = raw],
                        400, FALSE, "", "empty_name"))

\* PATCH /rename/:docId, lines 797-835: read the row, compute the keys,
\* short-circuit on an equal key
RenameFetch(w, u, id, raw) ==
  /\ SanitizeName(raw) # <<>>
  /\ UNCHANGED <<storage, docs, nextId>>
  /\ \E ok \in Outcomes : Outcome(ok) /\
       LET r == Logged([NewReq("rename", u, TRUE, <<id>>) EXCEPT
                          !.newNameRaw = raw, !.newName = SanitizeName(raw)],
                       Call("select", NoKey, NoKey, ok))
           found == ok /\ id \in DOMAIN docs /\ docs[id].uid = r.uid
           oldKey == NormKey(docs[id].path_of_file)
           newKey == RenameKey(oldKey, r.newName)
       IN  Arrive(w, IF ~found THEN Respond(r, 404, FALSE, "", "not_found")
                     ELSE IF docs[id].status = "trashed" THEN Respond(r, 400, FALSE, "", "trashed")
                     ELSE IF oldKey = <<>> THEN Respond(r, 400, FALSE, "", "invalid_path")
                     ELSE IF oldKey = newKey
                     THEN Respond([r EXCEPT !.snap = <<docs[id]>>, !.idx = 1], 200, TRUE, "", "")
                     ELSE [r EXCEPT !.pc = "rn_probe", !.snap = <<docs[id]>>, !.idx = 1,
                                    !.src = oldKey, !.dst = newKey])

\* lines 837-839: createSignedUrl(oldKey, 30) as the existence probe
RnProbe(w) ==
  /\ At(w, "rename", "rn_probe")
  /\ UNCHANGED <<storage, docs, nextId>>
  /\ \E ok \in Outcomes : Outcome(ok) /\
       LET signed == ok /\ Live(storage, reqs[w].src)
           r == Logged(reqs[w], Call("sign", reqs[w].src, NoKey, signed))
       IN  Goto(w, RnAfterProbe(r, signed))

\* lines 841-850: copy(oldKey, newKey)
RnCopy(w) ==
  /\ At(w, "rename", "rn_copy")
  /\ UNCHANGED <<docs, nextId>>
  /\ \E ok \in Outcomes : Outcome(ok) /\
       LET copied == ok /\ Live(storage, reqs[w].src)
           r == Logged(reqs[w], Call("copy", reqs[w].src, reqs[w].dst, copied))
       IN  /\ storage' = IF copied THEN CopyResult(storage, r.src, r.dst) ELSE storage
           /\ Goto(w, RnAfterCopy(r, copied))

\* lines 852-855: remove([oldKey])
RnRemove(w) ==
  /\ At(w, "rename", "rn_remove")
  /\ UNCHANGED <<docs, nextId>>
  /\ \E ok \in Outcomes : Outcome(ok) /\
       LET r == Logged(reqs[w], Call("remove", reqs[w].src, NoKey, ok))
       IN  /\ storage' = IF ok THEN RemoveResult(storage, r.src) ELSE storage
           /\ Goto(w, RnAfterRemove(r, ok))

\* lines 856-862: remove([newKey]).catch(() => {}), then the 500
RnUndo(w) ==
  /\ At(w, "rename", "rn_undo")
  /\ UNCHANGED <<docs, nextId>>
  /\ \E ok \in Outcomes : Outcome(ok) /\
       LET r == Logged(reqs[w], Call("remove", reqs[w].dst, NoKey, ok))
       IN  /\ storage' = IF ok THEN RemoveResult(storage, r.dst) ELSE storage
           /\ Goto(w, Respond(r, 500, FALSE, "", "remove_failed"))

\* lines 865-875: the metadata update
RnUpdate(w) ==
  /\ At(w, "rename", "rn_update")
  /\ UNCHANGED <<storage, nextId>>
  /\ \E ok \in Outcomes : Outcome(ok) /\
       LET r == Logged(reqs[w], Call("update", NoKey, NoKey, ok))
       IN  /\ docs' = IF ok THEN UpdateResult(docs, Cur(r).id, r.uid, RnPatch(r)) ELSE docs
           /\ Goto(w, RnAfterUpdate(r, ok))

\* lines 876-877: the rollback copy(newKey, oldKey)
RnRbCopy(w) ==
  /\ At(w, "rename", "rn_rbcopy")
  /\ UNCHANGED <<docs, nextId>>
  /\ \E ok \in Outcomes : Outcome(ok) /\
       LET copied == ok /\ Live(storage, reqs[w].dst)
           r == Logged(reqs[w], Call("copy", reqs[w].dst, reqs[w].src, copied))
       IN  /\ storage' = IF copied THEN CopyResult(storage, r.dst, r.src) ELSE storage
           /\ Goto(w, RnAfterRbCopy(r, copied))

\* lines 878-885: remove([newKey]).catch(() => {}), then the 500
RnRbRemove(w) ==
  /\ At(w, "rename", "rn_rbremove")
  /\ UNCHANGED <<docs, nextId>>
  /\ \E ok \in Outcomes : Outcome(ok) /\
       LET r == Logged(reqs[w], Call("remove", reqs[w].dst, NoKey, ok))
       IN  /\ storage' = IF ok THEN RemoveResult(storage, r.dst) ELSE storage
           /\ Goto(w, Respond(r, 500, FALSE, "", "db_update_failed"))

\* ------------------------------------------------------- specification
\* The response has been sent: the worker is free again.
Finish(w) ==
  /\ reqs[w].pc = "done"
  /\ reqs' = [reqs EXCEPT ![w] = IdleReq]
  /\ hist' = [hist EXCEPT ![w] = NoHist]
  /\ UNCHANGED <<storage, docs, nextId, failures, admitted, uploaded,
                 shares, nextShare, now>>

Init ==
  /\ storage = <<>>
  /\ docs = <<>>
  /\ nextId = 1
  /\ reqs = [w \in Workers |-> IdleReq]
  /\ hist = [w \in Workers |-> NoHist]
  /\ failures = 0
  /\ admitted = 0
  /\ uploaded = <<>>
  /\ shares = <<>>
  /\ nextShare = 1
  /\ now = 0

\* A request arrives at worker w.
Start(w) ==
  \/ \E u \in Uploaders, name \in UploadNames : UploadPut(w, u, name)
  \/ \E u \in Users, id \in DocIds : TrashSingle(w, u, id)
  \/ \E u \in Users, ids \in IdLists : TrashBatch(w, u, ids)
  \/ \E u \in Users, ids \in IdLists : RestoreFetch(w, u, ids)
  \/ \E u \in Users, ids \in IdLists : PermDeleteFetch(w, u, ids)
  \/ \E u \in Users, id \in DocIds, raw \in RawNames : RenameReject(w, u, id, raw)
  \/ \E u \in Users, id \in DocIds, raw \in RawNames : RenameFetch(w, u, id, raw)

\* The handler at worker w takes its next step.
Step(w) ==
  \/ UpInsert(w)
  \/ MtProbe(w) \/ MtCopy(w) \/ MtRemove(w) \/ MtUndo(w) \/ MtUpdate(w)
  \/ RsCopy(w) \/ RsRemove(w) \/ RsUpdate(w)
  \/ PdRemove(w) \/ PdDelete(w)
  \/ RnProbe(w) \/ RnCopy(w) \/ RnRemove(w) \/ RnUndo(w)
  \/ RnUpdate(w) \/ RnRbCopy(w) \/ RnRbRemove(w)
  \/ Finish(w)

\* Requests run one at a time: a request arrives only when none is in flight.
Next == Start(1) \/ Step(1)

Spec == Init /\ [][Next]_vars

\* Every adapter call returns, with a result or with an error, and Node then
\* runs the continuation of the handler that awaited it: a handler that can
\* take a step takes it.
SpecFair == Spec /\ WF_vars(Step(1))


\* ------------------------------------------- no adapter failure
\* The requests of Spec, one at a time, where no adapter call fails for a
\* reason of its own (an upload to a key that holds an object, a probe or a
\* copy of a key that holds nothing still fail): the undo and rollback steps
\* are never reached.
InitNoFailure ==
  /\ storage = <<>>
  /\ docs = <<>>
  /\ nextId = 1
  /\ reqs = [w \in Workers |-> IdleReq]
  /\ hist = [w \in Workers |-> NoHist]
  /\ failures = MaxFailures
  /\ admitted = 0
  /\ uploaded = <<>>
  /\ shares = <<>>
  /\ nextShare = 1
  /\ now = 0

StepNoFailure(w) ==
  \/ UpInsert(w)
  \/ MtProbe(w) \/ MtCopy(w) \/ MtRemove(w) \/ MtUpdate(w)
  \/ RsCopy(w) \/ RsRemove(w) \/ RsUpdate(w)
  \/ PdRemove(w) \/ PdDelete(w)
  \/ RnProbe(w) \/ RnCopy(w) \/ RnRemove(w) \/ RnUpdate(w)
  \/ Finish(w)

NextNoFailure == Start(1) \/ StepNoFailure(1)

SpecNoFailure == InitNoFailure /\ [][NextNoFailure]_vars

\* ------------------------------------------- concurrent requests
\* Express runs a handler up to its next await and then runs any other handler
\* that is ready: the requests of the two workers interleave at their adapter
\* calls.  The state at the start is the one an upload of UploadedName by
\* UploadedBy leaves; from there the requests of that user on that document
\* run, and no adapter call fails for a reason of its own (a probe or a copy of
\* a key that holds nothing still fails).
UploadedBy == "u1"

UploadedName == <<"a">>

InitConcurrent ==
  /\ storage = PutResult(<<>>, UploadKey(UploadedBy, UploadedName), 1)
  /\ docs = InsertResult(<<>>, 1, UploadedBy, UploadedName, UploadKey(UploadedBy, UploadedName))
  /\ nextId = 2
  /\ reqs = [w \in Workers |-> IdleReq]
  /\ hist = [w \in Workers |-> NoHist]
  /\ failures = MaxFailures
  /\ admitted = 0
  /\ uploaded = docs
  /\ shares = <<>>
  /\ nextShare = 1
  /\ now = 0

StartConcurrent(w) ==
  \/ TrashSingle(w, UploadedBy, 1)
  \/ RestoreFetch(w, UploadedBy, <<1>>)
  \/ PermDeleteFetch(w, UploadedBy, <<1>>)
  \/ \E raw \in RawNames : RenameFetch(w, UploadedBy, 1, raw)

StepConcurrent(w) ==
  \/ MtProbe(w) \/ MtCopy(w) \/ MtRemove(w) \/ MtUpdate(w)
  \/ RsCopy(w) \/ RsRemove(w) \/ RsUpdate(w)
  \/ PdRemove(w) \/ PdDelete(w)
  \/ RnProbe(w) \/ RnCopy(w) \/ RnRemove(w) \/ RnUpdate(w)
  \/ Finish(w)

NextConcurrent == \E w \in Workers : StartConcurrent(w) \/ StepConcurrent(w)

SpecConcurrent == InitConcurrent /\ [][NextConcurrent]_vars

\* ------------------------------------------- rows the table can hold
\* The table is an external database: the handlers guard against rows they
\* never write themselves (a trashed row without trash_path, lines 605-612 and
\* 705-712).  Here the table starts with one row of UploadedBy that is active,
\* trashed with its trash_path or trashed without one, its object at the trash path when the
\* row is trashed and has one and at path_of_file otherwise, and the requests
\* run one at a time as in Spec.
StoredStatuses == {"active", "trashed"}

StoredTrashPaths == {NoKey, TrashKey(UploadedBy, UploadKey(UploadedBy, UploadedName))}

InitStoredRows ==
  \E st \in StoredStatuses, tp \in StoredTrashPaths :
    (st = "active" => tp = NoKey) /\
    LET key == UploadKey(UploadedBy, UploadedName)
        row == [id |-> 1, uid |-> UploadedBy, fileName |-> UploadedName,
                path_of_file |-> key, status |-> st, trash_path |-> tp,
                sharedTo |-> {}, sharedFrom |-> {}]
    IN  /\ docs = [j \in {1} |-> row]
        /\ storage = PutResult(<<>>, IF st = "active" \/ tp = NoKey THEN key ELSE tp, 1)
        /\ nextId = 2
        /\ reqs = [w \in Workers |-> IdleReq]
        /\ hist = [w \in Workers |-> NoHist]
        /\ failures = 0
        /\ admitted = 0
        /\ uploaded = docs
        /\ shares = <<>>
        /\ nextShare = 1
        /\ now = 0

SpecStoredRows == InitStoredRows /\ [][Next]_vars

\* ------------------------------------------- batches over two owners
\* The table holds one active document of each user, each with its object, and
\* the batch requests of both users run one at a time.
OwnerOf == [id \in DocIds |-> IF id = 1 THEN "u1" ELSE "u2"]

InitTwoOwners ==
  LET key(id) == UploadKey(OwnerOf[id], UploadedName)
  IN  /\ docs = [id \in DocIds |->
                   [id |-> id, uid |-> OwnerOf[id], fileName |-> UploadedName,
                    path_of_file |-> key(id), status |-> "active", trash_path |-> NoKey,
                    sharedTo |-> {}, sharedFrom |-> {}]]
      /\ storage = [k \in { key(id) : id \in DocIds } |->
                      CHOOSE id \in DocIds : key(id) = k]
      /\ nextId = MaxDocs + 1
      /\ reqs = [w \in Workers |-> IdleReq]
      /\ hist = [w \in Workers |-> NoHist]
      /\ failures = 0
      /\ admitted = 0
      /\ uploaded = docs
      /\ shares = <<>>
      /\ nextShare = 1
      /\ now = 0

StartBatch(w) ==
  \/ \E u \in Users, ids \in IdLists : TrashBatch(w, u, ids)
  \/ \E u \in Users, ids \in IdLists : RestoreFetch(w, u, ids)
  \/ \E u \in Users, ids \in IdLists : PermDeleteFetch(w, u, ids)

StepBatch(w) ==
  \/ MtProbe(w) \/ MtCopy(w) \/ MtRemove(w) \/ MtUndo(w) \/ MtUpdate(w)
  \/ RsCopy(w) \/ RsRemove(w) \/ RsUpdate(w)
  \/ PdRemove(w) \/ PdDelete(w)
  \/ Finish(w)

NextBatch == StartBatch(1) \/ StepBatch(1)

SpecTwoOwners == InitTwoOwners /\ [][NextBatch]_vars

\* ------------------------------------------------------------ sharing
\* const TTL_SECONDS = 60 * 60 * 24 (line 267)
TTL_SECONDS == 60 * 60 * 24

\* The clock moves in steps of TTL_SECONDS \div TicksPerTtl, MaxTicks times.
ClockStep == TTL_SECONDS \div TicksPerTtl

ShareIds == 1..MaxShares

\* The share types a client sends; only the first two pass lines 235-239.
ShareTypes == {"restricted", "Anyone with link"}

ShareTypeInputs == ShareTypes \cup {"public"}

\* Table User: the accounts and their e-mail addresses.  "u3" sends no request.
Accounts == Users \cup {"u3"}

EmailOf == [u \in Accounts |-> IF u = "u1" THEN "e1" ELSE IF u = "u2" THEN "e2" ELSE "e3"]

\* The normalised e-mail lists a client sends ("ex" is the address of no account).
EmailLists == { {}, {"e2"}, {"e3", "ex"} }

\* .from('User').select('id, email').in('email', emailArr)
MatchedUsers(emails) == { u \in Accounts : EmailOf[u] \in emails }

\* lines 361-365: emailArr.filter((e) => !matchedUsers.some((u) => u.email === e))
UnresolvedEmails(emails) ==
  { e \in emails : ~\E u \in MatchedUsers(emails) : EmailOf[u] = e }

\* .update(patch).eq('id', id) that succeeded: no row, no change
UpdateById(db, id, patch) ==
  IF id \in DOMAIN db
  THEN [db EXCEPT ![id] = [f \in DOMAIN db[id] |->
                             IF f \in DOMAIN patch THEN patch[f] ELSE db[id][f]]]
  ELSE db

\* documentshares.insert([{id, doc_id, uid, share_type}]) that succeeded
ShareInsertResult(tbl, sid, docId, uid, type) ==
  [j \in DOMAIN tbl \cup {sid} |->
     IF j = sid
     THEN [id |-> sid, doc_id |-> docId, uid |-> uid, share_type |-> type,
           signed_url |-> NoUrl, expires_at |-> NoTime]
     ELSE tbl[j]]

\* documentshares.update({signed_url, expires_at}).eq('id', sid) that succeeded
ShareUpdateResult(tbl, sid, url, expires) ==
  IF sid \in DOMAIN tbl
  THEN [tbl EXCEPT ![sid].signed_url = url, ![sid].expires_at = expires]
  ELSE tbl

\* documentshares.delete().eq('doc_id', docId).neq('share_type', 'restricted')
ShareClearResult(tbl, docId) ==
  [j \in { k \in DOMAIN tbl : ~(tbl[k].doc_id = docId /\ tbl[k].share_type # "restricted") }
     |-> tbl[j]]

\* Time passes.  A handler reads the clock in one step only (the one after
\* createSignedUrl or the one that answers), so with one request at a time a
\* tick inside a request is the same as one before it or after it.
Tick ==
  /\ \A w \in Workers : reqs[w].pc = "idle"
  /\ now < MaxTicks * ClockStep
  /\ now' = now + ClockStep
  /\ UNCHANGED <<storage, docs, nextId, reqs, hist, failures, admitted, uploaded,
                 shares, nextShare>>

\* ------------------------------------- shareUserDocument (lines 227-303)
\* lines 289-302: the share is stashed in res.locals and the next middleware of
\* the route runs, sharedTo (lines 326-342): without e-mails it passes on to
\* sharedFrom, with e-mails it selects the document
SharedToEnter(r) ==
  IF r.emails = {} THEN [r EXCEPT !.pc = "sf_fetch"] ELSE [r EXCEPT !.pc = "st_fetch"]

\* lines 248-253: the select by id and uid returned; uuidv4() names the share
ShAfterFetch(r, found, row, sid) ==
  IF ~found THEN Respond(r, 403, FALSE, "", "not_found_or_unauthorized")
  ELSE [r EXCEPT !.pc = "sh_insert", !.snap = <<row>>, !.idx = 1, !.share = sid]

\* lines 262-270: the insert of the share row returned; a URL is signed next,
\* whatever the share type is
ShAfterInsert(r, ok) ==
  IF ~ok THEN Respond(r, 500, FALSE, "", "share_insert_failed")
  ELSE [r EXCEPT !.pc = "sh_sign"]

\* lines 272-276: createSignedUrl returned at second t; the URL is taken as
\* minted in the second the handler reads the clock in
ShAfterSign(r, signed, t) ==
  IF ~signed THEN Respond(r, 500, FALSE, "", "sign_failed")
  ELSE [r EXCEPT !.pc = "sh_store",
                 !.url = [key |-> Cur(r).path_of_file, minted |-> t, ttl |-> TTL_SECONDS],
                 !.expires = t + TTL_SECONDS]

\* lines 285-302: the update of the share row returned
ShAfterStore(r, ok) ==
  IF ~ok THEN Respond(r, 500, FALSE, "", "share_update_failed")
  ELSE SharedToEnter(r)

\* lines 232-239: no share type, or one that is neither of the two
ShareReject(w, u, id, type) ==
  /\ type \notin ShareTypes
  /\ UNCHANGED <<storage, docs, nextId, failures, shares, nextShare, now>>
  /\ ArriveAt(w, Respond([NewReq("share", u, TRUE, <<id>>) EXCEPT !.shareType = type],
                         400, FALSE, "", "bad_share_type"))

\* lines 241-253: select('*').eq('id', docId).eq('uid', userId).single(), then uuidv4()
ShareFetch(w, u, id, type, emails) ==
  /\ type \in ShareTypes
  /\ nextShare <= MaxShares
  /\ UNCHANGED <<storage, docs, nextId, shares, now>>
  /\ \E ok \in Outcomes : Outcome(ok) /\
       LET found == ok /\ id \in DOMAIN docs /\ docs[id].uid = u
           r0 == [NewReq("share", u, TRUE, <<id>>) EXCEPT !.shareType = type, !.emails = emails]
           r == Logged(r0, Call("select", NoKey, NoKey, found))
       IN  /\ nextShare' = IF found THEN nextShare + 1 ELSE nextShare
           /\ ArriveAt(w, ShAfterFetch(r, found, IF found THEN docs[id] ELSE <<>>, nextShare))

\* lines 254-261: insert([{id: shareId, doc_id, uid, share_type}])
ShInsert(w) ==
  /\ At(w, "share", "sh_insert")
  /\ UNCHANGED <<storage, docs, nextId, nextShare, now>>
  /\ \E ok \in Outcomes : Outcome(ok) /\
       LET r == Logged(reqs[w], Call("share_insert", NoKey, NoKey, ok))
       IN  /\ shares' = IF ok
                        THEN ShareInsertResult(shares, r.share, Cur(r).id, r.uid, r.shareType)
                        ELSE shares
           /\ GotoAt(w, ShAfterInsert(r, ok))

\* lines 267-270: createSignedUrl(doc.path_of_file, TTL_SECONDS); line 276: Date.now()
ShSign(w) ==
  /\ At(w, "share", "sh_sign")
  /\ UNCHANGED <<storage, docs, nextId, shares, nextShare, now>>
  /\ \E ok \in Outcomes : Outcome(ok) /\
       LET signed == ok /\ Live(storage, Cur(reqs[w]).path_of_file)
           r == Logged(reqs[w], Call("sign", Cur(reqs[w]).path_of_file, NoKey, signed))
       IN  GotoAt(w, ShAfterSign(r, signed, now))

\* lines 277-283: update({signed_url, expires_at}).eq('id', shareId)
ShStore(w) ==
  /\ At(w, "share", "sh_store")
  /\ UNCHANGED <<storage, docs, nextId, nextShare, now>>
  /\ \E ok \in Outcomes : Outcome(ok) /\
       LET r == Logged(reqs[w], Call("share_update", NoKey, NoKey, ok))
       IN  /\ shares' = IF ok
                        THEN ShareUpdateResult(shares, r.share, r.url, r.expires)
                        ELSE shares
           /\ GotoAt(w, ShAfterStore(r, ok))

\* ------------------------------------------- sharedTo (lines 326-385)
\* line 384: next().  On /share/doc/:docId the next middleware is sharedFrom; on
\* /share/emails/:docId the route has no other handler and app.all('*') answers
\* 404 (src/app.js lines 38-40).
StNext(r) ==
  IF r.op = "share" THEN [r EXCEPT !.pc = "sf_fetch"]
  ELSE Respond(r, 404, FALSE, "", "no_route")

\* lines 349-352: the select of the document returned
StAfterFetch(r, found, row) ==
  IF ~found THEN Respond(r, 400, FALSE, "", "select_failed")
  ELSE IF row.uid # r.uid THEN Respond(r, 403, FALSE, "", "unauthorized")
  ELSE [r EXCEPT !.pc = "st_users", !.snap = <<row>>, !.idx = 1]

\* lines 358-369: the select of the users returned
StAfterUsers(r, ok) ==
  IF ~ok THEN Respond(r, 400, FALSE, "", "users_failed")
  ELSE LET foundIds == MatchedUsers(r.emails)
           r1 == [r EXCEPT !.updated = Cur(r).sharedTo \cup foundIds,
                           !.unresolved = UnresolvedEmails(r.emails)]
       IN  IF foundIds # {} THEN [r1 EXCEPT !.pc = "st_update"] ELSE StNext(r1)

\* lines 374-384: the update of sharedTo returned
StAfterUpdate(r, ok) ==
  IF ~ok THEN Respond(r, 400, FALSE, "", "update_failed") ELSE StNext(r)

\* lines 326-348 on /share/emails/:docId: no e-mail passes on without a look at
\* the document, otherwise select('id, uid, sharedTo').eq('id', docId).single()
RecipientsFetch(w, u, id, emails) ==
  /\ UNCHANGED <<storage, docs, nextId, shares, nextShare, now>>
  /\ LET r0 == [NewReq("recipients", u, TRUE, <<id>>) EXCEPT !.emails = emails]
     IN  IF emails = {}
         THEN UNCHANGED failures /\ ArriveAt(w, StNext(r0))
         ELSE \E ok \in Outcomes : Outcome(ok) /\
                LET found == ok /\ id \in DOMAIN docs
                    r == Logged(r0, Call("select", NoKey, NoKey, found))
                IN  ArriveAt(w, StAfterFetch(r, found, IF found THEN docs[id] ELSE <<>>))

\* lines 344-348 on /share/doc/:docId
StFetch(w) ==
  /\ At(w, "share", "st_fetch")
  /\ UNCHANGED <<storage, docs, nextId, shares, nextShare, now>>
  /\ \E ok \in Outcomes : Outcome(ok) /\
       LET id == reqs[w].ids[1]
           found == ok /\ id \in DOMAIN docs
           r == Logged(reqs[w], Call("select", NoKey, NoKey, found))
       IN  GotoAt(w, StAfterFetch(r, found, IF found THEN docs[id] ELSE <<>>))

\* lines 354-357: select('id, email').in('email', emailArr)
StUsers(w) ==
  /\ reqs[w].pc = "st_users"
  /\ UNCHANGED <<storage, docs, nextId, shares, nextShare, now>>
  /\ \E ok \in Outcomes : Outcome(ok) /\
       GotoAt(w, StAfterUsers(Logged(reqs[w], Call("users", NoKey, NoKey, ok)), ok))

\* lines 370-373: update({sharedTo: updatedSharedTo}).eq('id', docId)
StUpdate(w) ==
  /\ reqs[w].pc = "st_update"
  /\ UNCHANGED <<storage, nextId, shares, nextShare, now>>
  /\ \E ok \in Outcomes : Outcome(ok) /\
       LET r == Logged(reqs[w], Call("update", NoKey, NoKey, ok))
       IN  /\ docs' = IF ok THEN UpdateById(docs, r.ids[1], [sharedTo |-> r.updated]) ELSE docs
           /\ GotoAt(w, StAfterUpdate(r, ok))

\* ------------------------------------------- sharedFrom (lines 388-434)
\* runPostShareHooks (lines 438-447): the one response of /share/doc/:docId
\* (hooks.sharedTo carries the unresolvedEmails that sharedTo stashed)
ShareDone(r) ==
  [Respond([r EXCEPT !.viewUrl = r.url], 200, FALSE, "", "")
     EXCEPT !.resp.unresolved = r.unresolved]

\* lines 416-421: the requester is appended to sharedFrom unless already in it
SfDecide(r) ==
  IF r.uid \in Cur(r).sharedFrom THEN ShareDone(r)
  ELSE [r EXCEPT !.pc = "sf_update", !.updated = Cur(r).sharedFrom \cup {r.uid}]

\* lines 400-407: the select of the document returned
SfAfterFetch(r, found, row) ==
  IF ~found THEN Respond(r, 400, FALSE, "", "select_failed")
  ELSE IF row.uid # r.uid THEN Respond(r, 403, FALSE, "", "unauthorized")
  ELSE LET r1 == [r EXCEPT !.snap = <<row>>, !.idx = 1]
       IN  IF r.emails # {} THEN [r1 EXCEPT !.pc = "sf_users"] ELSE SfDecide(r1)

\* lines 412-413: the select of the users returned
SfAfterUsers(r, ok) ==
  IF ~ok THEN Respond(r, 400, FALSE, "", "users_failed") ELSE SfDecide(r)

\* lines 426-434: the update of sharedFrom returned
SfAfterUpdate(r, ok) ==
  IF ~ok THEN Respond(r, 400, FALSE, "", "update_failed") ELSE ShareDone(r)

\* lines 395-399: select('id, uid, sharedFrom').eq('id', docId).single()
SfFetch(w) ==
  /\ At(w, "share", "sf_fetch")
  /\ UNCHANGED <<storage, docs, nextId, shares, nextShare, now>>
  /\ \E ok \in Outcomes : Outcome(ok) /\
       LET id == reqs[w].ids[1]
           found == ok /\ id \in DOMAIN docs
           r == Logged(reqs[w], Call("select", NoKey, NoKey, found))
       IN  GotoAt(w, SfAfterFetch(r, found, IF found THEN docs[id] ELSE <<>>))

\* lines 408-411: select('id, email').in('email', emailArr)
SfUsers(w) ==
  /\ At(w, "share", "sf_users")
  /\ UNCHANGED <<storage, docs, nextId, shares, nextShare, now>>
  /\ \E ok \in Outcomes : Outcome(ok) /\
       GotoAt(w, SfAfterUsers(Logged(reqs[w], Call("users", NoKey, NoKey, ok)), ok))

\* lines 422-425: update({sharedFrom: updatedSharedFrom}).eq('id', docId)
SfUpdate(w) ==
  /\ At(w, "share", "sf_update")
  /\ UNCHANGED <<storage, nextId, shares, nextShare, now>>
  /\ \E ok \in Outcomes : Outcome(ok) /\
       LET r == Logged(reqs[w], Call("update", NoKey, NoKey, ok))
       IN  /\ docs' = IF ok THEN UpdateById(docs, r.ids[1], [sharedFrom |-> r.updated]) ELSE docs
           /\ GotoAt(w, SfAfterUpdate(r, ok))

\* ------------------------------------------- accessSharedDoc (lines 897-939)
\* A decision that lets a restricted share through to the link checks.
AcDecideNoRestricted(r, t) ==
  IF r.grant.signed_url = NoUrl
     \/ (r.grant.expires_at # NoTime /\ r.grant.expires_at <= t)
  THEN Respond(r, 410, FALSE, "", "link_expired")
  ELSE Respond([r EXCEPT !.viewUrl = r.grant.signed_url], 200, FALSE, "", "")

\* A decision that takes the link as expired only after the second it expires in.
AcDecideLate(r, t) ==
  IF r.grant.share_type = "restricted"
  THEN Respond(r, 401, FALSE, "", "restricted")
  ELSE IF r.grant.signed_url = NoUrl
          \/ (r.grant.expires_at # NoTime /\ r.grant.expires_at < t)
  THEN Respond(r, 410, FALSE, "", "link_expired")
  ELSE Respond([r EXCEPT !.viewUrl = r.grant.signed_url], 200, FALSE, "", "")

\* lines 919-938: the share and its document were found; t is Date.now()
AcDecide(r, t) ==
  IF r.grant.share_type = "restricted"
  THEN Respond(r, 401, FALSE, "", "restricted")
  ELSE IF r.grant.signed_url = NoUrl
          \/ (r.grant.expires_at # NoTime /\ r.grant.expires_at <= t)
  THEN Respond(r, 410, FALSE, "", "link_expired")
  ELSE Respond([r EXCEPT !.viewUrl = r.grant.signed_url], 200, FALSE, "", "")

\* lines 908-909: the select of the share returned
AcAfterShare(r, found, row) ==
  IF ~found THEN Respond(r, 404, FALSE, "", "share_not_found")
  ELSE [r EXCEPT !.pc = "ac_doc", !.grant = row]

\* An access that does not look at the outcome of the select of the document.
AcAfterDocUnchecked(r, found, t) == AcDecide(r, t)

\* lines 917-924: the select of the document returned at second t
AcAfterDoc(r, found, t) ==
  IF ~found THEN Respond(r, 404, FALSE, "", "doc_not_found") ELSE AcDecide(r, t)

\* lines 902-906: documentshares.select('*').eq('id', shareId).single()
AccessFetch(w, u, sid) ==
  /\ UNCHANGED <<storage, docs, nextId, shares, nextShare, now>>
  /\ \E ok \in Outcomes : Outcome(ok) /\
       LET found == ok /\ sid \in DOMAIN shares
           r0 == [NewReq("access", u, TRUE, <<>>) EXCEPT !.share = sid]
           r == Logged(r0, Call("share_select", NoKey, NoKey, found))
       IN  ArriveAt(w, AcAfterShare(r, found, IF found THEN shares[sid] ELSE NoGrant))

\* lines 911-915: UserDocuments.select('*').eq('id', share.doc_id).single()
AcDoc(w) ==
  /\ At(w, "access", "ac_doc")
  /\ UNCHANGED <<storage, docs, nextId, shares, nextShare, now>>
  /\ \E ok \in Outcomes : Outcome(ok) /\
       LET found == ok /\ reqs[w].grant.doc_id \in DOMAIN docs
           r == Logged(reqs[w], Call("select", NoKey, NoKey, found))
       IN  GotoAt(w, AcAfterDoc(r, found, now))

\* ------------------------------------------- removeShare (lines 1087-1185)
\* The modes a client sends; "" is no mode.
ModeInputs == {"", "owner", "recipient", "other"}

\* The recipients lists a client sends.
RecipientLists == { {}, {"u3"} }

\* A recipient-mode removal that empties sharedTo instead of taking one id out.
RvAfterFetchClearsAll(r, found, row) ==
  IF ~found THEN Respond(r, 400, FALSE, "", "select_failed")
  ELSE LET isOwner == row.uid = r.uid
           mode == IF r.mode = "" THEN (IF isOwner THEN "owner" ELSE "recipient") ELSE r.mode
           r1 == [r EXCEPT !.mode = mode, !.snap = <<row>>, !.idx = 1]
       IN  IF mode = "owner"
           THEN IF ~isOwner THEN Respond(r1, 403, FALSE, "", "unauthorized")
                ELSE [r1 EXCEPT !.pc = "rv_update",
                                !.updated = IF r.recipients # {}
                                            THEN row.sharedTo \ r.recipients ELSE {}]
           ELSE IF mode = "recipient"
           THEN IF r.uid \notin row.sharedTo THEN Respond(r1, 200, TRUE, "", "")
                ELSE [r1 EXCEPT !.pc = "rv_update", !.updated = {}]
           ELSE Respond(r1, 400, FALSE, "", "invalid_mode")

\* lines 1101-1126 and 1154-1184: the select of the document returned
RvAfterFetch(r, found, row) ==
  IF ~found THEN Respond(r, 400, FALSE, "", "select_failed")
  ELSE LET isOwner == row.uid = r.uid
           mode == IF r.mode = "" THEN (IF isOwner THEN "owner" ELSE "recipient") ELSE r.mode
           r1 == [r EXCEPT !.mode = mode, !.snap = <<row>>, !.idx = 1]
       IN  IF mode = "owner"
           THEN IF ~isOwner THEN Respond(r1, 403, FALSE, "", "unauthorized")
                ELSE [r1 EXCEPT !.pc = "rv_update",
                                !.updated = IF r.recipients # {}
                                            THEN row.sharedTo \ r.recipients ELSE {}]
           ELSE IF mode = "recipient"
           THEN IF r.uid \notin row.sharedTo THEN Respond(r1, 200, TRUE, "", "")
                ELSE [r1 EXCEPT !.pc = "rv_update", !.updated = row.sharedTo \ {r.uid}]
           ELSE Respond(r1, 400, FALSE, "", "invalid_mode")

\* lines 1132-1134 and 1175-1180: the update of sharedTo returned
RvAfterUpdate(r, ok) ==
  IF ~ok THEN Respond(r, 400, FALSE, "", "update_failed")
  ELSE IF r.mode = "owner" THEN [r EXCEPT !.pc = "rv_clear"]
  ELSE Respond(r, 200, FALSE, "", "")

\* lines 1141-1150: the delete of the shares returned; its failure is not fatal
RvAfterClear(r, ok) ==
  Respond(r, 200, FALSE, IF ok THEN "" ELSE "public_shares_not_cleared", "")

\* lines 1095-1099: select('id, uid, sharedTo').eq('id', docId).single()
RevokeFetch(w, u, id, mode, recipients) ==
  /\ UNCHANGED <<storage, docs, nextId, shares, nextShare, now>>
  /\ \E ok \in Outcomes : Outcome(ok) /\
       LET found == ok /\ id \in DOMAIN docs
           r0 == [NewReq("revoke", u, TRUE, <<id>>) EXCEPT !.mode = mode,
                                                      !.recipients = recipients]
           r == Logged(r0, Call("select", NoKey, NoKey, found))
       IN  ArriveAt(w, RvAfterFetch(r, found, IF found THEN docs[id] ELSE <<>>))

\* lines 1128-1131 and 1171-1174: update({sharedTo: updatedSharedTo}).eq('id', docId)
RvUpdate(w) ==
  /\ At(w, "revoke", "rv_update")
  /\ UNCHANGED <<storage, nextId, shares, nextShare, now>>
  /\ \E ok \in Outcomes : Outcome(ok) /\
       LET r == Logged(reqs[w], Call("update", NoKey, NoKey, ok))
       IN  /\ docs' = IF ok THEN UpdateById(docs, r.ids[1], [sharedTo |-> r.updated]) ELSE docs
           /\ GotoAt(w, RvAfterUpdate(r, ok))

\* lines 1135-1139: documentshares.delete().eq('doc_id', docId).neq('share_type', 'restricted')
RvClear(w) ==
  /\ At(w, "revoke", "rv_clear")
  /\ UNCHANGED <<storage, docs, nextId, nextShare, now>>
  /\ \E ok \in Outcomes : Outcome(ok) /\
       LET r == Logged(reqs[w], Call("share_delete", NoKey, NoKey, ok))
       IN  /\ shares' = IF ok THEN ShareClearResult(shares, r.ids[1]) ELSE shares
           /\ GotoAt(w, RvAfterClear(r, ok))

\* --------------------- getSignedUrlForDoc (src/unnamed/part_002 lines 5-34)
\* getSignedUrlForDoc(userId, docId, 60 * 10) of lines 156 and 215
VIEW_TTL_SECONDS == 60 * 10

\* A check that lets the owner through and nobody else.
IsViewerOwnerOnly(row, u) == row.uid = u

\* lines 17-20: the requester is the owner or one of sharedTo
IsViewer(row, u) == row.uid = u \/ u \in row.sharedTo

\* userDocController.js lines 157-205: openUserDocument compares the error with
\* 'Not_found', which getSignedUrlForDoc never returns, and reads result.doc,
\* which getSignedUrlForDoc never sets: but for url_error the handler throws a
\* TypeError at line 162, which catchAsync passes to the error handler.
OpenAnswer(r, error) ==
  IF error = "Not_found" THEN Respond(r, 400, FALSE, "", "not_found")
  ELSE IF error = "url_error" THEN Respond(r, 400, FALSE, "", "url_error")
  ELSE Respond(r, 500, FALSE, "", "type_error")

\* userDocController.js lines 216-221: downloadUserDoc redirects to the URL
DownloadAnswer(r, error) ==
  IF error = "not_found" THEN Respond(r, 400, FALSE, "", "not_found_or_unauthorized")
  ELSE IF error = "url_error" THEN Respond(r, 400, FALSE, "", "url_error")
  ELSE Respond([r EXCEPT !.viewUrl = r.url], 302, FALSE, "", "")

\* getSignedUrlForDoc returned {error} or {signedUrl} to the handler
GsReturn(r, error) ==
  IF r.op = "open" THEN OpenAnswer(r, error) ELSE DownloadAnswer(r, error)

\* part_002 lines 13-23: the select of the document returned
GsAfterFetch(r, found, row) ==
  IF ~found THEN GsReturn(r, "not_found")
  ELSE IF row.status = "trashed" THEN GsReturn(r, "not_found")
  ELSE IF ~IsViewer(row, r.uid) THEN GsReturn(r, "not_found")
  ELSE IF StripLeadingSlashes(row.path_of_file) = <<>> THEN GsReturn(r, "url_error")
  ELSE [r EXCEPT !.pc = "gs_sign", !.snap = <<row>>, !.idx = 1,
                 !.src = StripLeadingSlashes(row.path_of_file)]

\* part_002 lines 31-33: createSignedUrl returned, the URL minted in second m
GsAfterSign(r, signed, m) ==
  IF ~signed THEN GsReturn(r, "url_error")
  ELSE GsReturn([r EXCEPT !.url = [key |-> r.src, minted |-> m, ttl |-> VIEW_TTL_SECONDS]], "")

\* userDocController.js lines 151-156 and 210-215, part_002 lines 7-11:
\* select('id, uid, path_of_file, fileName, status, sharedTo').eq('id', docId).single()
ViewFetch(w, op, u, id) ==
  /\ op \in {"open", "download"}
  /\ UNCHANGED <<storage, docs, nextId, shares, nextShare, now>>
  /\ \E ok \in Outcomes : Outcome(ok) /\
       LET found == ok /\ id \in DOMAIN docs
           r == Logged(NewReq(op, u, TRUE, <<id>>), Call("select", NoKey, NoKey, found))
       IN  ArriveAt(w, GsAfterFetch(r, found, IF found THEN docs[id] ELSE <<>>))

\* part_002 lines 25-29: createSignedUrl(storagePath, ttlSeconds, {download})
GsSign(w) ==
  /\ reqs[w].pc = "gs_sign"
  /\ UNCHANGED <<storage, docs, nextId, shares, nextShare, now>>
  /\ \E ok \in Outcomes : Outcome(ok) /\
       LET signed == ok /\ Live(storage, reqs[w].src)
           r == Logged(reqs[w], Call("sign", reqs[w].src, NoKey, signed))
       IN  GotoAt(w, GsAfterSign(r, signed, now))

\* ------------------------------------- openViaStoredShare (lines 1032-1082)
\* .eq('doc_id', docId).neq('share_type', 'restricted').order('created_at',
\* {ascending: false}).limit(1): the shares are created in the order of their ids
LatestPublicShare(tbl, id) ==
  LET S == { sid \in DOMAIN tbl : tbl[sid].doc_id = id /\ tbl[sid].share_type # "restricted" }
  IN  IF S = {} THEN NoGrant ELSE tbl[CHOOSE sid \in S : \A o \in S : o <= sid]

\* lines 1044-1053: the select of the document returned
OvAfterFetch(r, found, row) ==
  IF ~found THEN Respond(r, 404, FALSE, "", "doc_not_found")
  ELSE IF row.status = "trashed" THEN Respond(r, 403, FALSE, "", "in_trash")
  ELSE IF ~IsViewer(row, r.uid) THEN Respond(r, 403, FALSE, "", "unauthorized")
  ELSE [r EXCEPT !.pc = "ov_shares", !.snap = <<row>>, !.idx = 1]

\* lines 1064-1081: the select of the shares returned at second t
OvAfterShares(r, ok, share, t) ==
  IF ~ok \/ share = NoGrant THEN Respond(r, 404, FALSE, "", "no_share")
  ELSE IF share.signed_url = NoUrl \/ (share.expires_at # NoTime /\ share.expires_at <= t)
  THEN Respond(r, 410, FALSE, "", "link_expired")
  ELSE Respond([r EXCEPT !.grant = share, !.viewUrl = share.signed_url], 200, FALSE, "", "")

\* lines 1032-1042: select('id, uid, sharedTo, fileName, status').eq('id', docId).single()
OvFetch(w, u, id) ==
  /\ UNCHANGED <<storage, docs, nextId, shares, nextShare, now>>
  /\ \E ok \in Outcomes : Outcome(ok) /\
       LET found == ok /\ id \in DOMAIN docs
           r == Logged(NewReq("openShared", u, TRUE, <<id>>),
                       Call("select", NoKey, NoKey, found))
       IN  ArriveAt(w, OvAfterFetch(r, found, IF found THEN docs[id] ELSE <<>>))

\* lines 1055-1062: the select of the latest share that is not restricted
OvShares(w) ==
  /\ At(w, "openShared", "ov_shares")
  /\ UNCHANGED <<storage, docs, nextId, shares, nextShare, now>>
  /\ \E ok \in Outcomes : Outcome(ok) /\
       LET r == Logged(reqs[w], Call("share_select", NoKey, NoKey, ok))
       IN  GotoAt(w, OvAfterShares(r, ok, LatestPublicShare(shares, r.ids[1]), now))

\* ------------------------------------------- sharing requests
\* The state at the start is the one an upload of UploadedName by UploadedBy
\* leaves.  The sharing requests of every user arrive on that document, one at a
\* time, and the clock moves between any two steps.
InitSharing ==
  /\ storage = PutResult(<<>>, UploadKey(UploadedBy, UploadedName), 1)
  /\ docs = InsertResult(<<>>, 1, UploadedBy, UploadedName, UploadKey(UploadedBy, UploadedName))
  /\ nextId = 2
  /\ reqs = [w \in Workers |-> IdleReq]
  /\ hist = [w \in Workers |-> NoHist]
  /\ failures = 0
  /\ admitted = 0
  /\ uploaded = docs
  /\ shares = <<>>
  /\ nextShare = 1
  /\ now = 0

StartSharing(w) ==
  \/ \E u \in Users, type \in ShareTypeInputs : ShareReject(w, u, 1, type)
  \/ \E u \in Users, type \in ShareTypeInputs, emails \in EmailLists :
       ShareFetch(w, u, 1, type, emails)
  \/ \E u \in Users, emails \in EmailLists : RecipientsFetch(w, u, 1, emails)
  \/ \E u \in Users, sid \in ShareIds : AccessFetch(w, u, sid)
  \/ \E u \in Users, mode \in ModeInputs, recipients \in RecipientLists :
       RevokeFetch(w, u, 1, mode, recipients)

StepSharing(w) ==
  \/ ShInsert(w) \/ ShSign(w) \/ ShStore(w)
  \/ StFetch(w) \/ StUsers(w) \/ StUpdate(w)
  \/ SfFetch(w) \/ SfUsers(w) \/ SfUpdate(w)
  \/ AcDoc(w)
  \/ RvUpdate(w) \/ RvClear(w)
  \/ Finish(w)

NextSharing == StartSharing(1) \/ StepSharing(1) \/ Tick

SpecSharing == InitSharing /\ [][NextSharing]_vars

\* ------------------------------------------- sharing a document that moves
\* The sharing requests together with the lifecycle requests on the shared
\* document, one at a time, where no adapter call fails for a reason of its own.
InitSharedLifecycle ==
  /\ storage = PutResult(<<>>, UploadKey(UploadedBy, UploadedName), 1)
  /\ docs = InsertResult(<<>>, 1, UploadedBy, UploadedName, UploadKey(UploadedBy, UploadedName))
  /\ nextId = 2
  /\ reqs = [w \in Workers |-> IdleReq]
  /\ hist = [w \in Workers |-> NoHist]
  /\ failures = MaxFailures
  /\ admitted = 0
  /\ uploaded = docs
  /\ shares = <<>>
  /\ nextShare = 1
  /\ now = 0

StartLifecycle(w) ==
  \/ \E u \in Users : TrashSingle(w, u, 1)
  \/ \E u \in Users : RestoreFetch(w, u, <<1>>)
  \/ \E u \in Users : PermDeleteFetch(w, u, <<1>>)
  \/ \E u \in Users : RenameFetch(w, u, 1, <<"b">>)

StepLifecycle(w) ==
  \/ MtProbe(w) \/ MtCopy(w) \/ MtRemove(w) \/ MtUpdate(w)
  \/ RsCopy(w) \/ RsRemove(w) \/ RsUpdate(w)
  \/ PdRemove(w) \/ PdDelete(w)
  \/ RnProbe(w) \/ RnCopy(w) \/ RnRemove(w) \/ RnUpdate(w)

NextSharedLifecycle ==
  \/ StartSharing(1) \/ StartLifecycle(1)
  \/ StepSharing(1) \/ StepLifecycle(1)
  \/ Tick

SpecSharedLifecycle == InitSharedLifecycle /\ [][NextSharedLifecycle]_vars

\* ------------------------------------------- viewers
\* The requests that view a document, on the uploaded document and on an id
\* that names no document, together with the sharing and lifecycle requests.
StartViewers(w) ==
  \/ \E op \in {"open", "download"}, u \in Users, id \in DocIds : ViewFetch(w, op, u, id)
  \/ \E u \in Users, id \in DocIds : OvFetch(w, u, id)

StepViewers(w) == GsSign(w) \/ OvShares(w)

NextViewers == NextSharedLifecycle \/ StartViewers(1) \/ StepViewers(1)

SpecViewers == InitSharedLifecycle /\ [][NextViewers]_vars

\* ------------------------------------------- concurrent sharing requests
\* The requests that write sharedTo, interleaved at their adapter calls as in
\* SpecConcurrent: the owner adds recipients and revokes, the others revoke.
StartSharingConcurrent(w) ==
  \/ \E emails \in EmailLists : RecipientsFetch(w, UploadedBy, 1, emails)
  \/ \E u \in Users, recipients \in RecipientLists : RevokeFetch(w, u, 1, "", recipients)

StepSharingConcurrent(w) ==
  \/ StUsers(w) \/ StUpdate(w) \/ RvUpdate(w) \/ RvClear(w) \/ Finish(w)

NextSharingConcurrent ==
  \E w \in Workers : StartSharingConcurrent(w) \/ StepSharingConcurrent(w)

SpecSharingConcurrent == InitSharedLifecycle /\ [][NextSharingConcurrent]_vars

\* ------------------------------------------------- vocabulary of the claims
\* The handler at w took the step.
Acted(w) == reqs'[w] # reqs[w]

LastCall(r) == r.calls[Len(r.calls)]

\* The step of w was the adapter call of position pc of handler op, and it failed
\* or succeeded.
Called(w, op, pc, ok) == At(w, op, pc) /\ Acted(w) /\ LastCall(reqs'[w]).ok = ok

\* What the step of w reported for the item it finished: the response of a
\* single-id request, the entry a batch pushed for the item (entries of skipped
\* items may follow it in the same step).
ReportedError(w, code) ==
  IF reqs[w].single
  THEN reqs'[w].pc = "done" /\ reqs'[w].resp.code >= 400 /\ reqs'[w].resp.error = code
  ELSE /\ Len(reqs'[w].results) > Len(reqs[w].results)
       /\ LET e == reqs'[w].results[Len(reqs[w].results) + 1]
          IN  e.id = Cur(reqs[w]).id /\ ~e.ok /\ e.error = code

ReportedOk(w, warning) ==
  IF reqs[w].single
  THEN /\ reqs'[w].pc = "done" /\ reqs'[w].resp.code = 200
       /\ reqs'[w].resp.error = "" /\ reqs'[w].resp.warning = warning
  ELSE /\ Len(reqs'[w].results) > Len(reqs[w].results)
       /\ LET e == reqs'[w].results[Len(reqs[w].results) + 1]
          IN  e.id = Cur(reqs[w]).id /\ e.ok /\ e.error = "" /\ e.warning = warning

\* The handler is through with its item: it has answered or gone on to the next.
ItemOver(w) == reqs'[w].pc = "done" \/ reqs'[w].idx > reqs[w].idx

\* No request is in flight.
Quiet == \A w \in Workers : reqs[w].pc = "idle"

\* "trash/" + uid + "/" + key, written out
TrashKeyOf(uid, key) == <<"trash", "/", uid, "/">> \o key

\* ----------------------------------------------------------------- C1
\* C1: whenever no request is in flight, for every document record exactly one
\* holds: an object is live at storageKey, or the status is trashed and an
\* object is live at trashKey.
C1_ExactlyOneLiveLocation ==
  Quiet =>
    \A id \in DOMAIN docs :
      Live(storage, docs[id].path_of_file)
        # (docs[id].status = "trashed" /\ docs[id].trash_path # NoKey
             /\ Live(storage, docs[id].trash_path))

\* ----------------------------------------------------------------- C2
C2_StatusMatchesTrashKey ==
  \A id \in DOMAIN docs :
    /\ docs[id].status \in {"active", "trashed"}
    /\ docs[id].status = "trashed" => docs[id].trash_path # NoKey
    /\ docs[id].status = "active" => docs[id].trash_path = NoKey

C2_WrittenTogether ==
  \A id \in DOMAIN docs \cap DOMAIN docs' :
    (docs'[id].status # docs[id].status) <=> (docs'[id].trash_path # docs[id].trash_path)

\* C2: in every state a trashed document has a trashKey and an active one has
\* none, and every step that writes status writes trashKey with it.
C2_StatusAndTrashKeyTogether ==
  []C2_StatusMatchesTrashKey /\ [][C2_WrittenTogether]_vars

\* A restore has set a document active again after a trash had set it trashed.
C2_Witness ==
  \E w \in Workers :
    /\ reqs[w].op = "restore" /\ reqs[w].pc = "done"
    /\ \E i \in DOMAIN reqs[w].results :
         /\ reqs[w].results[i].ok
         /\ docs[reqs[w].results[i].id].status = "active"
         /\ docs[reqs[w].results[i].id].trash_path = NoKey

\* ----------------------------------------------------------------- C3
\* Every change of an existing record's status is one of the two transitions, and
\* a record that is deleted was trashed.
C3_Transitions ==
  \A id \in DOMAIN docs :
    IF id \in DOMAIN docs'
    THEN \/ docs'[id].status = docs[id].status
         \/ docs[id].status = "active" /\ docs'[id].status = "trashed"
         \/ docs[id].status = "trashed" /\ docs'[id].status = "active"
    ELSE docs[id].status = "trashed"

\* A handler whose document has no record any more (the record it read has been
\* deleted) changes neither the storage nor the metadata.
C3_DeletedIsTerminal ==
  \A w \in Workers :
    (Acted(w) /\ reqs[w].pc \notin {"idle", "done"} /\ reqs[w].idx >= 1
       /\ Cur(reqs[w]).id \notin DOMAIN docs) =>
      storage' = storage /\ docs' = docs

\* C3: the status of a document changes only from active to trashed and from
\* trashed to active, a record is deleted only while its status is trashed, and
\* after the deletion no operation on the id changes any state.
C3_StateMachine == [][C3_Transitions /\ C3_DeletedIsTerminal]_vars

\* ----------------------------------------------------------------- C4
\* The last step of a trash whose every call succeeded, on an active document
\* whose object is live at its storage key.
C4_TrashStep ==
  \A w \in Workers :
    Called(w, "trash", "mt_update", TRUE) =>
      LET d == Cur(reqs[w])
          K == d.path_of_file
          T == TrashKeyOf(d.uid, K)
      IN  (hist[w].docs[d.id] = d /\ d.status = "active" /\ Live(hist[w].storage, K)) =>
            /\ ReportedOk(w, "")
            /\ docs'[d.id] = [d EXCEPT !.status = "trashed", !.trash_path = T]
            /\ Live(storage', T) /\ storage'[T] = hist[w].storage[K]
            /\ ~Live(storage', K)

\* The last step of a restore whose every call succeeded, on a document in the
\* state a successful trash leaves.
C4_RestoreStep ==
  \A w \in Workers :
    (Called(w, "restore", "rs_update", TRUE) /\ LastCall(reqs[w]).ok) =>
      LET d == Cur(reqs[w])
          K == d.path_of_file
          T == TrashKeyOf(d.uid, K)
      IN  (/\ hist[w].docs[d.id] = d /\ d.status = "trashed" /\ d.trash_path = T
           /\ Live(hist[w].storage, T) /\ ~Live(hist[w].storage, K)) =>
            /\ docs'[d.id] = [d EXCEPT !.status = "active", !.trash_path = NoKey]
            /\ Live(storage', K) /\ storage'[K] = hist[w].storage[T]
            /\ ~Live(storage', T)

\* C4: a successful trash of an active document with storage key K of user U
\* sets status trashed and trashKey "trash/U/K" and moves the object there; a
\* successful restore from that state sets status active, storageKey K and
\* trashKey null, with the same content live at K and nothing at the trash key.
C4_TrashRestoreRoundTrip == [][C4_TrashStep /\ C4_RestoreStep]_vars

\* A restore has answered with every call of it successful, and the document is
\* active at its upload key with the content that was uploaded.
C4_Witness ==
  \E w \in Workers :
    /\ reqs[w].op = "restore" /\ reqs[w].pc = "done"
    /\ Len(reqs[w].snap) = 1 /\ Len(reqs[w].calls) = 4
    /\ \A i \in DOMAIN reqs[w].calls : reqs[w].calls[i].ok
    /\ LET d == reqs[w].snap[1]
       IN  /\ d.trash_path = TrashKeyOf(d.uid, d.path_of_file)
           /\ d.id \in DOMAIN docs /\ docs[d.id].status = "active"
           /\ docs[d.id].path_of_file = d.path_of_file
           /\ Live(storage, d.path_of_file) /\ storage[d.path_of_file] = d.id
           /\ ~Live(storage, d.trash_path)

\* ----------------------------------------------------------------- C5
C5_Step ==
  \A w \in Workers :
    Called(w, "trash", "mt_update", FALSE) =>
      LET r == reqs[w]
      IN  /\ ReportedOk(w, "db_update_failed")
          /\ ItemOver(w)
          /\ storage' = storage
          /\ Live(storage', r.dst) /\ storage'[r.dst] = hist[w].storage[r.src]
          /\ ~Live(storage', r.src)
          /\ docs' = hist[w].docs

\* C5: when the metadata update of trash fails after copy and remove succeeded,
\* trash reports success with warning db_update_failed and makes no further
\* storage call for the document: the object is at the trash key, nothing is at
\* the storage key, and the metadata is as before the call.
C5_TrashUpdateFailureIsWarning == [][C5_Step]_vars

C5_Witness ==
  \E w \in Workers :
    /\ reqs[w].op = "trash" /\ reqs[w].pc = "done" /\ reqs[w].single
    /\ reqs[w].resp.code = 200 /\ reqs[w].resp.warning = "db_update_failed"
    /\ LastCall(reqs[w]).call = "update" /\ ~LastCall(reqs[w]).ok
    /\ docs[reqs[w].snap[1].id].status = "active"
    /\ Live(storage, reqs[w].dst) /\ ~Live(storage, reqs[w].src)

\* ----------------------------------------------------------------- C6
C6_Step ==
  \A w \in Workers :
    /\ Called(w, "trash", "mt_probe", FALSE) =>
         ReportedError(w, "object_not_found") /\ storage' = hist[w].storage /\ docs' = hist[w].docs
    /\ Called(w, "trash", "mt_copy", FALSE) =>
         ReportedError(w, "copy_failed") /\ storage' = hist[w].storage /\ docs' = hist[w].docs

\* C6: when the existence probe of trash fails, trash reports object_not_found,
\* and when its copy fails, copy_failed; in both cases every storage object and
\* the metadata are as before the call.
C6_TrashAbortChangesNothing == [][C6_Step]_vars

C6_Witness ==
  \E w \in Workers :
    /\ reqs[w].op = "trash" /\ reqs[w].pc = "done" /\ reqs[w].single
    /\ reqs[w].resp.code = 500 /\ reqs[w].resp.error = "copy_failed"
    /\ LastCall(reqs[w]).call = "copy" /\ ~LastCall(reqs[w]).ok
    /\ Live(storage, reqs[w].src) /\ ~Live(storage, reqs[w].dst)

\* ----------------------------------------------------------------- C7
C7_Step ==
  \A w \in Workers :
    /\ Called(w, "trash", "mt_remove", FALSE) =>
         reqs'[w].pc = "mt_undo" /\ docs' = hist[w].docs /\ storage' = storage
    /\ (At(w, "trash", "mt_undo") /\ Acted(w)) =>
         LET d == Cur(reqs[w])
             K == d.path_of_file
         IN  /\ LastCall(reqs'[w]).call = "remove"
             /\ LastCall(reqs'[w]).a = TrashKeyOf(d.uid, K)
             /\ ReportedError(w, "remove_failed")
             /\ docs' = hist[w].docs
             /\ docs'[d.id].status = "active" /\ docs'[d.id].trash_path = NoKey
             /\ Live(storage', K) /\ storage'[K] = hist[w].storage[K]

\* C7: when the remove of the source key fails in trash after the copy
\* succeeded, the next call of trash is a remove of the trash copy, trash then
\* reports remove_failed, the metadata is unchanged (active, no trashKey) and
\* the original object is live at the storage key.
C7_TrashRemoveFailureUndoesCopy == [][C7_Step]_vars

C7_Witness ==
  \E w \in Workers :
    /\ reqs[w].op = "trash" /\ reqs[w].pc = "done" /\ reqs[w].single
    /\ reqs[w].resp.code = 500 /\ reqs[w].resp.error = "remove_failed"
    /\ Len(reqs[w].calls) = 5
    /\ reqs[w].calls[3].call = "copy" /\ reqs[w].calls[3].ok
    /\ reqs[w].calls[4].call = "remove" /\ ~reqs[w].calls[4].ok
    /\ reqs[w].calls[5].call = "remove" /\ reqs[w].calls[5].a = reqs[w].dst
    /\ Live(storage, reqs[w].src)

\* ----------------------------------------------------------------- C8
IsPrefix(s, t) == Len(s) <= Len(t) /\ \A i \in 1..Len(s) : s[i] = t[i]

ItemCalls(r, i) == SelectSeq(r.calls, LAMBDA c : c.item = i)

CallNames(cs) == [i \in 1..Len(cs) |-> cs[i].call]

IsMetaWrite(c) == c.call \in {"update", "delete", "insert"}

IsStorageMutation(c) == c.call \in {"copy", "remove", "put"}

\* The calls of a transition in the order of its protocol.
Forward(op) ==
  CASE op = "trash" -> <<"sign", "copy", "remove", "update">>
    [] op = "restore" -> <<"copy", "remove", "update">>
    [] op = "permdelete" -> <<"remove", "delete">>
    [] op = "rename" -> <<"sign", "copy", "remove", "update">>
    [] OTHER -> <<>>

\* The calls that undo a transition after its call at position at failed.
Undo(op, at) ==
  CASE op = "trash" /\ at = 3 -> <<"remove">>
    [] op = "rename" /\ at = 3 -> <<"remove">>
    [] op = "rename" /\ at = 4 -> <<"copy", "remove">>
    [] OTHER -> <<>>

C8_ItemInOrder(op, cs) ==
  LET names == CallNames(cs)
  IN  /\ \/ IsPrefix(names, Forward(op))
         \/ \E at \in 1..Len(cs) :
              /\ ~cs[at].ok
              /\ IsPrefix(names, SubSeq(Forward(op), 1, at) \o Undo(op, at))
      /\ \A j \in 1..Len(cs) :
           IsMetaWrite(cs[j]) =>
             /\ \E c \in 1..(j - 1) : cs[c].call = "remove"
             /\ op # "permdelete" => \E c \in 1..(j - 1) : cs[c].call = "copy"
             /\ \A k \in (j + 1)..Len(cs) : IsStorageMutation(cs[k]) => ~cs[j].ok

\* C8: the calls every trash, restore, rename and permanent delete has made for
\* one document are, in order, a prefix of its protocol (or of the protocol up
\* to a failed call followed by the undo of it), each issued after the one
\* before returned; a metadata write comes after the copy and the remove, and a
\* storage mutation follows a metadata write only to undo after it failed.
C8_StorageBeforeMetadata ==
  \A w \in Workers :
    reqs[w].op \in {"trash", "restore", "permdelete", "rename"} =>
      \A i \in 1..Len(reqs[w].snap) : C8_ItemInOrder(reqs[w].op, ItemCalls(reqs[w], i))

\* A batch trash has answered after writing the metadata of its second document.
C8_Witness ==
  \E w \in Workers :
    /\ reqs[w].op = "trash" /\ reqs[w].pc = "done" /\ Len(reqs[w].snap) = 2
    /\ LET cs == ItemCalls(reqs[w], 2)
       IN  /\ CallNames(cs) = <<"sign", "copy", "remove", "update">>
           /\ \A i \in 1..4 : cs[i].ok

\* ----------------------------------------------------------------- C9
C9_Step ==
  \A w \in Workers :
    /\ Called(w, "rename", "rn_update", FALSE) =>
         reqs'[w].pc = "rn_rbcopy" /\ docs' = hist[w].docs
    /\ (At(w, "rename", "rn_rbcopy") /\ Acted(w)) =>
         /\ LastCall(reqs'[w]).call = "copy"
         /\ LastCall(reqs'[w]).a = reqs[w].dst /\ LastCall(reqs'[w]).b = reqs[w].src
         /\ IF LastCall(reqs'[w]).ok
            THEN reqs'[w].pc = "rn_rbremove"
            ELSE reqs'[w].pc = "done" /\ reqs'[w].resp.code = 500
         /\ docs' = hist[w].docs
    /\ (At(w, "rename", "rn_rbremove") /\ Acted(w)) =>
         LET d == Cur(reqs[w])
         IN  /\ LastCall(reqs'[w]).call = "remove" /\ LastCall(reqs'[w]).a = reqs[w].dst
             /\ reqs'[w].pc = "done" /\ reqs'[w].resp.code = 500
             /\ reqs'[w].resp.error = "db_update_failed"
             /\ docs' = hist[w].docs
             /\ docs'[d.id].fileName = d.fileName
             /\ docs'[d.id].path_of_file = d.path_of_file
             /\ LastCall(reqs'[w]).ok =>
                  /\ Live(storage', reqs[w].src)
                  /\ storage'[reqs[w].src] = hist[w].storage[reqs[w].src]
                  /\ ~Live(storage', reqs[w].dst)

\* C9: when the metadata update of rename fails after copy and remove
\* succeeded, the next calls of rename are a copy new -> old and then a remove of
\* the new key, and rename reports failure; when both succeed the object is live
\* at the old key only, and fileName and storageKey are as before the rename.
C9_RenameRollback == [][C9_Step]_vars

C9_Witness ==
  \E w \in Workers :
    /\ reqs[w].op = "rename" /\ reqs[w].pc = "done" /\ reqs[w].resp.code = 500
    /\ reqs[w].resp.error = "db_update_failed"
    /\ LastCall(reqs[w]).call = "remove" /\ LastCall(reqs[w]).ok
    /\ reqs[w].src # reqs[w].dst
    /\ Live(storage, reqs[w].src) /\ ~Live(storage, reqs[w].dst)
    /\ docs[reqs[w].snap[1].id] = reqs[w].snap[1]

\* ----------------------------------------------------------------- C10
C10_Attempt(w) ==
  /\ Called(w, "rename", "rn_remove", FALSE) =>
       reqs'[w].pc = "rn_undo" /\ docs' = hist[w].docs
  /\ (At(w, "rename", "rn_undo") /\ Acted(w)) =>
       /\ LastCall(reqs'[w]).call = "remove" /\ LastCall(reqs'[w]).a = reqs[w].dst
       /\ reqs'[w].pc = "done" /\ reqs'[w].resp.code = 500
       /\ reqs'[w].resp.error = "remove_failed"
       /\ docs' = hist[w].docs
       /\ Live(storage', reqs[w].src)

\* C10 as stated: when the remove of the old key fails in rename after the copy
\* succeeded, rename attempts to remove the new copy and fails the request with
\* the metadata unchanged, and after the request the old and the new key do not
\* both hold the object.
C10_NeverBothCopies ==
  [][\A w \in Workers :
       /\ C10_Attempt(w)
       /\ (At(w, "rename", "rn_undo") /\ Acted(w)) =>
            ~(Live(storage', reqs[w].src) /\ Live(storage', reqs[w].dst))]_vars

\* What holds of it: rename attempts to remove the new copy and fails the request
\* with the metadata unchanged and the object live at the old key, and when the
\* removal of the new copy succeeds the new key does not hold the object.
RenameUndoLeavesOneCopyWhenItSucceeds ==
  [][\A w \in Workers :
       /\ C10_Attempt(w)
       /\ (At(w, "rename", "rn_undo") /\ Acted(w) /\ LastCall(reqs'[w]).ok) =>
            ~Live(storage', reqs[w].dst)]_vars

RenameUndoSucceeded ==
  \E w \in Workers :
    /\ reqs[w].op = "rename" /\ reqs[w].pc = "done" /\ reqs[w].resp.code = 500
    /\ reqs[w].resp.error = "remove_failed"
    /\ LastCall(reqs[w]).call = "remove" /\ LastCall(reqs[w]).ok
    /\ reqs[w].src # reqs[w].dst
    /\ Live(storage, reqs[w].src) /\ ~Live(storage, reqs[w].dst)

\* ----------------------------------------------------------------- C11
C11_Step ==
  \A w \in Workers :
    /\ Called(w, "restore", "rs_copy", FALSE) =>
         /\ ReportedError(w, "copy_failed")
         /\ storage' = hist[w].storage /\ docs' = hist[w].docs
    /\ Called(w, "restore", "rs_remove", FALSE) =>
         /\ reqs'[w].pc = "rs_update" /\ reqs'[w].idx = reqs[w].idx
         /\ Len(reqs'[w].results) = Len(reqs[w].results) + 1
         /\ LET e == reqs'[w].results[Len(reqs'[w].results)]
            IN  e.id = Cur(reqs[w]).id /\ e.warning = "trash_remove_failed" /\ e.error = ""
         /\ docs' = hist[w].docs
    /\ (At(w, "restore", "rs_update") /\ Acted(w) /\ ~LastCall(reqs[w]).ok) =>
         LET d == Cur(reqs[w])
             dst == reqs[w].dst
         IN  /\ LastCall(reqs'[w]).call = "update"
             /\ LastCall(reqs'[w]).ok =>
                  /\ ReportedOk(w, "")
                  /\ docs'[d.id] = [d EXCEPT !.status = "active", !.path_of_file = dst,
                                             !.trash_path = NoKey]
                  /\ Live(storage', dst) /\ storage'[dst] = hist[w].storage[reqs[w].src]

\* C11: in restore a failed copy gives the item's error copy_failed with storage
\* and metadata as before; a failed remove of the trash copy after the copy
\* succeeded is a warning after which the metadata update is still issued, and
\* that update sets status active, storageKey the destination and trashKey
\* null, with the object live at the destination key.
C11_RestoreFailures == [][C11_Step]_vars

\* A restore has answered after a copy that succeeded, a remove that failed and
\* an update that succeeded: the object is at both keys.
C11_Witness ==
  \E w \in Workers :
    /\ reqs[w].op = "restore" /\ reqs[w].pc = "done" /\ Len(reqs[w].snap) = 1
    /\ Len(reqs[w].calls) = 4
    /\ reqs[w].calls[2].call = "copy" /\ reqs[w].calls[2].ok
    /\ reqs[w].calls[3].call = "remove" /\ ~reqs[w].calls[3].ok
    /\ reqs[w].calls[4].call = "update" /\ reqs[w].calls[4].ok
    /\ docs[reqs[w].snap[1].id].status = "active"
    /\ Live(storage, reqs[w].dst) /\ Live(storage, reqs[w].src)

\* ----------------------------------------------------------------- C12
C12_Step ==
  \A w \in Workers :
    /\ (At(w, "permdelete", "pd_remove") /\ Acted(w)) =>
         /\ Cur(reqs[w]).status = "trashed" /\ Cur(reqs[w]).trash_path # NoKey
         /\ LastCall(reqs'[w]).call = "remove"
         /\ LastCall(reqs'[w]).a = Cur(reqs[w]).trash_path
         /\ reqs'[w].pc = "pd_delete" /\ reqs'[w].idx = reqs[w].idx
         /\ docs' = docs
         /\ ~LastCall(reqs'[w]).ok =>
              LET e == reqs'[w].results[Len(reqs'[w].results)]
              IN  /\ Len(reqs'[w].results) = Len(reqs[w].results) + 1
                  /\ e.id = Cur(reqs[w]).id /\ e.warning = "storage_remove_failed"
                  /\ e.error = ""
    /\ (At(w, "permdelete", "pd_delete") /\ Acted(w)) =>
         /\ LastCall(reqs'[w]).call = "delete"
         /\ LastCall(reqs'[w]).ok => Cur(reqs[w]).id \notin DOMAIN docs'

\* C12: permanent delete of a trashed document with a trash key issues the row
\* delete after the storage remove whether the remove succeeded or not; a
\* failed remove is a warning of the item, and after a row delete that succeeded
\* the record does not exist.
C12_PermDeleteProceeds == [][C12_Step]_vars

\* A permanent delete has answered after a remove that failed and a row delete
\* that succeeded.
C12_Witness ==
  \E w \in Workers :
    /\ reqs[w].op = "permdelete" /\ reqs[w].pc = "done" /\ Len(reqs[w].snap) = 1
    /\ Len(reqs[w].calls) = 3
    /\ reqs[w].calls[2].call = "remove" /\ ~reqs[w].calls[2].ok
    /\ reqs[w].calls[3].call = "delete" /\ reqs[w].calls[3].ok
    /\ reqs[w].snap[1].id \notin DOMAIN docs
    /\ Live(storage, reqs[w].src)

\* ----------------------------------------------------------------- C13
\* The row is one that permanent delete must skip.
PdSkips(d) == d.status # "trashed" \/ d.trash_path = NoKey

PdSkipReason(d) == IF d.status # "trashed" THEN "not_trashed" ELSE "missing_trash_path"

\* The answer of a permanent delete has a skip entry with the reason for every
\* row it had to skip, and no call was made for such a row.
C13_Reported ==
  \A w \in Workers :
    (reqs[w].op = "permdelete" /\ reqs[w].pc = "done" /\ reqs[w].resp.code = 200) =>
      \A i \in 1..Len(reqs[w].snap) :
        PdSkips(reqs[w].snap[i]) =>
          /\ \E j \in 1..Len(reqs[w].resp.results) :
               LET e == reqs[w].resp.results[j]
               IN  /\ e.id = reqs[w].snap[i].id /\ e.skipped
                   /\ e.reason = PdSkipReason(reqs[w].snap[i])
          /\ \A c \in 1..Len(reqs[w].calls) : reqs[w].calls[c].item # i

\* No step of a permanent delete changes or deletes the row of a document it
\* skips or removes or replaces the object at the key that the row names.
C13_Untouched ==
  \A w \in Workers :
    (Acted(w) /\ reqs'[w].op = "permdelete") =>
      \A i \in 1..Len(reqs'[w].snap) :
        LET d == reqs'[w].snap[i]
        IN  PdSkips(d) =>
              /\ d.id \in DOMAIN docs => (d.id \in DOMAIN docs' /\ docs'[d.id] = docs[d.id])
              /\ Live(storage, d.path_of_file) =>
                   /\ Live(storage', d.path_of_file)
                   /\ storage'[d.path_of_file] = storage[d.path_of_file]

\* C13: permanent delete of an active document is a skip of the item with
\* reason not_trashed, and of a trashed document without a trash key a skip
\* with reason missing_trash_path; in both cases no object of the document is
\* removed and its row is neither changed nor deleted.
C13_PermDeleteSkips == []C13_Reported /\ [][C13_Untouched]_vars

\* One permanent delete has skipped an active document and a trashed document
\* without a trash key, and both rows and both objects are still there.
C13_Witness ==
  \E w \in Workers :
    /\ reqs[w].op = "permdelete" /\ reqs[w].pc = "done" /\ Len(reqs[w].snap) = 2
    /\ \E i, j \in 1..2 :
         /\ reqs[w].resp.results[i].skipped /\ reqs[w].resp.results[i].reason = "not_trashed"
         /\ reqs[w].resp.results[j].skipped
         /\ reqs[w].resp.results[j].reason = "missing_trash_path"
    /\ DOMAIN docs = {1, 2}
    /\ \A id \in {1, 2} : Live(storage, docs[id].path_of_file)

\* ----------------------------------------------------------------- C14
\* A trash request arrives at w.
TrashArrives(w) == reqs[w].pc = "idle" /\ reqs'[w].op = "trash"

\* The single-id route on a trashed document of the caller, and the batch route
\* on trashed documents only: the answer is the skip, and the step that gives
\* it leaves storage and metadata as they are.
C14_Arrival ==
  \A w \in Workers :
    TrashArrives(w) =>
      LET r == reqs'[w]
      IN  /\ (/\ r.single /\ r.calls[1].ok /\ r.ids[1] \in DOMAIN docs
              /\ docs[r.ids[1]].uid = r.uid /\ docs[r.ids[1]].status = "trashed") =>
               /\ r.pc = "done" /\ r.resp.code = 200 /\ r.resp.skipped
               /\ Len(r.calls) = 1
               /\ storage' = storage /\ docs' = docs
          /\ (/\ ~r.single /\ r.snap # <<>>
              /\ \A i \in 1..Len(r.snap) : r.snap[i].status = "trashed") =>
               /\ r.pc = "done" /\ r.resp.code = 200
               /\ Len(r.resp.results) = Len(r.snap)
               /\ \A i \in 1..Len(r.snap) :
                    /\ r.resp.results[i].id = r.snap[i].id /\ r.resp.results[i].skipped
                    /\ r.resp.results[i].reason = "already_trashed"
               /\ Len(r.calls) = 1
               /\ storage' = storage /\ docs' = docs

\* A trash makes no call for a document whose row it read as trashed, and its
\* answer has the skip entry of the document.
C14_NoCallForTrashed ==
  \A w \in Workers :
    reqs[w].op = "trash" =>
      \A i \in 1..Len(reqs[w].snap) :
        reqs[w].snap[i].status = "trashed" =>
          /\ \A c \in 1..Len(reqs[w].calls) : reqs[w].calls[c].item # i
          /\ (reqs[w].pc = "done" /\ ~reqs[w].single) =>
               \E j \in 1..Len(reqs[w].resp.results) :
                 /\ reqs[w].resp.results[j].id = reqs[w].snap[i].id
                 /\ reqs[w].resp.results[j].skipped

\* C14: trash of a document that is already trashed, by the single-id route
\* and by the batch route, answers skipped and makes no storage call and no
\* metadata write, so that after a second trash the state is that after the
\* first.
C14_TrashTwice == []C14_NoCallForTrashed /\ [][C14_Arrival]_vars

\* The single-id trash of a document has answered skipped, the document being
\* trashed with its object at the trash key.
C14_Witness ==
  \E w \in Workers :
    /\ reqs[w].op = "trash" /\ reqs[w].pc = "done" /\ reqs[w].single
    /\ reqs[w].resp.code = 200 /\ reqs[w].resp.skipped
    /\ docs[reqs[w].ids[1]].status = "trashed"
    /\ Live(storage, docs[reqs[w].ids[1]].trash_path)
    /\ ~Live(storage, docs[reqs[w].ids[1]].path_of_file)

\* ----------------------------------------------------------------- C15
\* A rename request arrives at w.
RenameArrives(w) == reqs[w].pc = "idle" /\ reqs'[w].op = "rename"

\* The request has been answered at its arrival, after the calls given, and
\* storage and metadata are as they were.
RenameDidNothing(w, calls) ==
  /\ reqs'[w].pc = "done"
  /\ CallNames(reqs'[w].calls) = calls
  /\ storage' = storage /\ docs' = docs

\* The raw name is nothing but white space: separators become "_", so these are
\* the names that are empty after the replacement and the trim.
OnlySpaces(raw) == \A i \in 1..Len(raw) : raw[i] = " "

\* The key that keeps the directory of key k and has file name n, for keys of
\* the form documents/<uid>/<name>.
SiblingKey(k, n) == SubSeq(k, 1, 4) \o n

C15_Arrival ==
  \A w \in Workers :
    RenameArrives(w) =>
      LET r == reqs'[w]
          id == r.ids[1]
          owned == id \in DOMAIN docs /\ docs[id].uid = r.uid
      IN  /\ OnlySpaces(r.newNameRaw) =>
               RenameDidNothing(w, <<>>) /\ r.resp.code = 400
          /\ (~OnlySpaces(r.newNameRaw) /\ r.calls[1].ok /\ owned) =>
               /\ docs[id].status = "trashed" =>
                    RenameDidNothing(w, <<"select">>) /\ r.resp.code = 400
               /\ (/\ docs[id].status # "trashed"
                   /\ Len(docs[id].path_of_file) > 4
                   /\ SiblingKey(docs[id].path_of_file, TrimStart(r.newNameRaw))
                        = docs[id].path_of_file) =>
                    /\ RenameDidNothing(w, <<"select">>)
                    /\ r.resp.code = 200 /\ r.resp.skipped

\* C15: rename makes no storage call and no metadata write when the document
\* is trashed (rejected), when the new name is empty after the replacement of
\* separators and the trim (rejected), and when the new key is the old key
\* (success, name unchanged).
C15_RenameNoOps == [][C15_Arrival]_vars

\* The three answers.
RenameOfTrashedRejected ==
  \E w \in Workers :
    /\ reqs[w].op = "rename" /\ reqs[w].pc = "done" /\ reqs[w].resp.error = "trashed"
    /\ docs[reqs[w].ids[1]].status = "trashed"

RenameToNothingRejected ==
  \E w \in Workers :
    /\ reqs[w].op = "rename" /\ reqs[w].pc = "done" /\ reqs[w].resp.error = "empty_name"
    /\ reqs[w].newNameRaw # <<>> /\ reqs[w].ids[1] \in DOMAIN docs

RenameToSameKeySkipped ==
  \E w \in Workers :
    /\ reqs[w].op = "rename" /\ reqs[w].pc = "done" /\ reqs[w].resp.code = 200
    /\ reqs[w].resp.skipped
    /\ reqs[w].newNameRaw # docs[reqs[w].ids[1]].fileName

\* A rename to its own name written with a leading space has been answered
\* with the name unchanged.
C15_Witness == RenameToSameKeySkipped

\* ----------------------------------------------------------------- C16
\* The update of a rename whose every call succeeded: the new key keeps the
\* directory of the old key and has the new name as its file name, the row has
\* the new key and the new name, and the object has moved.
C16_EachRename ==
  \A w \in Workers :
    Called(w, "rename", "rn_update", TRUE) =>
      LET d == Cur(reqs[w])
          K == d.path_of_file
          n == reqs[w].newName
      IN  (hist[w].docs[d.id] = d /\ Len(K) > 4) =>
            /\ reqs'[w].pc = "done" /\ reqs'[w].resp.code = 200
            /\ docs'[d.id] = [d EXCEPT !.fileName = n, !.path_of_file = SiblingKey(K, n)]
            /\ Live(storage', SiblingKey(K, n))
            /\ storage'[SiblingKey(K, n)] = hist[w].storage[K]
            /\ ~Live(storage', K)

\* The same step when the new name is the name the document was uploaded with
\* and the rename before it had succeeded: the row is the uploaded row again and
\* the object is at the uploaded key and not at the key in between.
C16_RenameBack ==
  \A w \in Workers :
    Called(w, "rename", "rn_update", TRUE) =>
      LET d == Cur(reqs[w])
          u == uploaded[d.id]
      IN  (/\ hist[w].docs[d.id] = d /\ reqs[w].newName = u.fileName
           /\ d.path_of_file = SiblingKey(u.path_of_file, d.fileName)
           /\ ~Live(hist[w].storage, u.path_of_file)) =>
            /\ docs'[d.id] = u
            /\ Live(storage', u.path_of_file)
            /\ storage'[u.path_of_file] = hist[w].storage[d.path_of_file]
            /\ ~Live(storage', d.path_of_file)

\* C16: a successful rename keeps the directory of the old key and replaces
\* the file name only, and a successful rename to N2 followed by a successful
\* rename back to N gives storageKey K and fileName N again, with the object
\* live at K and not at the key in between.
C16_RenameRoundTrip == [][C16_EachRename /\ C16_RenameBack]_vars

\* A rename back to the uploaded name has answered with success, no call having
\* failed since the upload.
C16_Witness ==
  \E w \in Workers :
    /\ reqs[w].op = "rename" /\ reqs[w].pc = "done" /\ reqs[w].resp.code = 200
    /\ ~reqs[w].resp.skipped /\ failures = 0
    /\ LET d == reqs[w].snap[1]
       IN  /\ d.fileName # uploaded[d.id].fileName
           /\ docs[d.id] = uploaded[d.id]
           /\ Live(storage, docs[d.id].path_of_file)
           /\ storage[docs[d.id].path_of_file] = d.id
           /\ ~Live(storage, d.path_of_file)

\* ----------------------------------------------------------------- C18
\* The share the access request at w names, as the table holds it.
AccessedShare(w) == shares[reqs[w].share]

\* The handler of the access request at w answers in this step, having found the share.
AccessAnswers(w) ==
  /\ At(w, "access", "ac_doc")
  /\ reqs'[w].pc = "done"
  /\ reqs[w].share \in DOMAIN shares

C18_Step ==
  \A w \in Workers :
    (AccessAnswers(w) /\ AccessedShare(w).share_type = "restricted")
    => /\ reqs'[w].resp.viewUrl = NoUrl
       /\ reqs'[w].resp.code = IF AccessedShare(w).doc_id \in DOMAIN docs THEN 401 ELSE 404

\* C18: accessSharedDoc on a share whose share_type is restricted never returns
\* a URL.  Its answer is fixed by the share and by whether the document row
\* exists (401 when it does, 404 when it does not), whoever asks, whatever the
\* time is and whatever the document's status and keys are.
C18_RestrictedNeverOpens == [][C18_Step]_vars

\* A user who is not the owner is refused a restricted share that carries a
\* URL and whose expiry time has passed.
C18_Witness ==
  \E w \in Workers :
    /\ At(w, "access", "done")
    /\ reqs[w].uid # UploadedBy
    /\ reqs[w].grant.share_type = "restricted"
    /\ reqs[w].grant.signed_url # NoUrl
    /\ reqs[w].grant.expires_at <= now
    /\ reqs[w].resp.code = 401

\* The same share is refused with 404 once its document is deleted.
RestrictedShareOfDeletedDocument ==
  \E w \in Workers :
    /\ At(w, "access", "done")
    /\ reqs[w].grant.share_type = "restricted"
    /\ reqs[w].grant.doc_id \notin DOMAIN docs
    /\ reqs[w].resp.code = 404

\* ----------------------------------------------------------------- C19
\* No restricted share in the table carries a URL or an expiry time.
C19_NoUrlOnRestricted ==
  \A sid \in DOMAIN shares :
    shares[sid].share_type = "restricted"
    => shares[sid].signed_url = NoUrl /\ shares[sid].expires_at = NoTime

\* The handler of a restricted share asks the storage adapter for no signed URL.
C19_NoSignForRestricted ==
  \A w \in Workers :
    (reqs[w].op = "share" /\ reqs[w].shareType = "restricted")
    => \A i \in DOMAIN reqs[w].calls : reqs[w].calls[i].call # "sign"

\* C19: a share whose share_type is restricted never has signed_url or
\* expires_at set: shareUserDocument with shareType restricted asks the storage
\* adapter for no signed URL and stores none on the share row.
C19_RestrictedCarriesNoUrl == C19_NoUrlOnRestricted /\ C19_NoSignForRestricted

\* ----------------------------------------------------------------- C20
\* The share is a public link that has reached its expiry time.
Expired(g, t) == g.expires_at # NoTime /\ g.expires_at <= t

\* The select of the document succeeded: the answer is the URL the share row
\* holds while the clock is before expires_at, and 410 from expires_at on.
C20_Answer ==
  \A w \in Workers :
    (Called(w, "access", "ac_doc", TRUE) /\ reqs[w].share \in DOMAIN shares
     /\ AccessedShare(w).share_type = "Anyone with link")
    => LET g == AccessedShare(w)
       IN  IF g.expires_at # NoTime /\ now < g.expires_at
           THEN /\ reqs'[w].resp.code = 200
                /\ g.signed_url # NoUrl
                /\ reqs'[w].resp.viewUrl = g.signed_url
           ELSE /\ reqs'[w].resp.code = 410
                /\ reqs'[w].resp.viewUrl = NoUrl

\* The handler calls the two selects and nothing else, and writes nothing.
C20_ReadOnly ==
  \A w \in Workers :
    (Acted(w) /\ reqs'[w].op = "access")
    => /\ shares' = shares /\ docs' = docs /\ storage' = storage
       /\ \A i \in DOMAIN reqs'[w].calls :
            reqs'[w].calls[i].call \in {"share_select", "select"}

\* No step of any handler, and no tick of the clock, takes a share back from expired.
C20_StaysExpired ==
  \A sid \in DOMAIN shares :
    (Expired(shares[sid], now) /\ sid \in DOMAIN shares')
    => Expired(shares'[sid], now')

\* C20: for an 'Anyone with link' share whose document exists, accessSharedDoc
\* returns the stored signed_url while now < expires_at and answers 410 (not
\* 404) once now >= expires_at; it calls no storage operation and writes
\* nothing, and a share that has expired stays expired.
C20_PublicLinkExpires == [][C20_Answer /\ C20_ReadOnly /\ C20_StaysExpired]_vars

\* A public link is refused with 410 in the very second it expires in, by a
\* request that found the share and its document.
C20_Witness ==
  \E w \in Workers :
    /\ At(w, "access", "done")
    /\ reqs[w].grant.share_type = "Anyone with link"
    /\ reqs[w].grant.expires_at = now
    /\ reqs[w].grant.doc_id \in DOMAIN docs
    /\ reqs[w].resp.code = 410

\* A public link is opened after some time has passed and before it expires.
PublicLinkOpenedBeforeExpiry ==
  \E w \in Workers :
    /\ At(w, "access", "done")
    /\ reqs[w].grant.share_type = "Anyone with link"
    /\ 0 < now /\ now < reqs[w].grant.expires_at
    /\ reqs[w].resp.code = 200
    /\ reqs[w].resp.viewUrl = reqs[w].grant.signed_url

\* ----------------------------------------------------------------- C17
\* The user whose request took the step at w.
Requester(w) == IF reqs[w].pc = "idle" THEN reqs'[w].uid ELSE reqs[w].uid

\* The keys the row names.
KeysOf(d) == {d.path_of_file, d.trash_path} \ {NoKey}

\* The shares of document id in table tbl.
SharesOf(tbl, id) == { sid \in DOMAIN tbl : tbl[sid].doc_id = id }

\* The step left the row of document id, the objects at its keys and its shares as they were.
Untouched(id) ==
  /\ id \in DOMAIN docs' /\ docs'[id] = docs[id]
  /\ \A k \in KeysOf(docs[id]) :
       (k \in DOMAIN storage <=> k \in DOMAIN storage')
       /\ (k \in DOMAIN storage => storage'[k] = storage[k])
  /\ SharesOf(shares', id) = SharesOf(shares, id)
  /\ \A sid \in SharesOf(shares, id) : shares'[sid] = shares[sid]

\* The step did nothing to document id but take user u out of its sharedTo.
LeftTheShare(id, u) ==
  /\ id \in DOMAIN docs'
  /\ docs'[id] = [docs[id] EXCEPT !.sharedTo = @ \ {u}]
  /\ storage' = storage /\ shares' = shares

C17_Step ==
  \A w \in Workers :
    Acted(w) =>
      \A id \in DOMAIN docs :
        docs[id].uid # Requester(w)
        => \/ Untouched(id)
           \/ /\ At(w, "revoke", "rv_update") /\ reqs[w].mode = "recipient"
              /\ LeftTheShare(id, Requester(w))

\* C17: no step of a request of user U changes the row, the objects or the
\* shares of a document whose uid is not U, but for removeShare in recipient
\* mode, which takes U's own id out of sharedTo and does nothing else.
C17_OnlyOwnerChanges == [][C17_Step]_vars

\* ----------------------------------------------------------------- C21
\* The 'Anyone with link' shares of the table.
PublicShares == { sid \in DOMAIN shares : shares[sid].share_type = "Anyone with link" }

\* Between requests every public link has a URL and an expiry time.
C21_UrlPresent ==
  Quiet => \A sid \in PublicShares :
             shares[sid].signed_url # NoUrl /\ shares[sid].expires_at # NoTime

\* The expiry time of a public link that has a URL is 24 hours after the URL was minted.
C21_ExpiryFromMinting ==
  \A sid \in PublicShares :
    shares[sid].signed_url # NoUrl
    => shares[sid].expires_at = shares[sid].signed_url.minted + TTL_SECONDS

\* C21: every 'Anyone with link' share in the table has signed_url and
\* expires_at set, expires_at being the minting time of the URL plus 24 hours,
\* also after a shareUserDocument request that ended with an error.
C21_PublicLinkComplete == C21_UrlPresent /\ C21_ExpiryFromMinting

\* ----------------------------------------------------------------- C22
ViewerOps == {"open", "download", "openShared"}

\* A viewer request of w arrives in this step and its select returns the row of
\* the document.
ViewerFinds(w) ==
  /\ reqs[w].pc = "idle"
  /\ reqs'[w].op \in ViewerOps
  /\ LastCall(reqs'[w]).ok

\* The row the select of the viewer request at w returned.
ViewedRow(w) == docs[reqs'[w].ids[1]]

\* The handler went on past the check of the requester, to the URL.
ViewerAdmitted(w) == reqs'[w].pc \in {"gs_sign", "ov_shares"}

OwnerOrRecipient(w) ==
  ViewedRow(w).uid = reqs'[w].uid \/ reqs'[w].uid \in ViewedRow(w).sharedTo

C22_AnyStatus ==
  \A w \in Workers : ViewerFinds(w) => (ViewerAdmitted(w) <=> OwnerOrRecipient(w))

\* The statement as the specification makes it: whatever state the document is
\* in, the requester is admitted if and only if they are the owner or in sharedTo.
C22_ViewerIffInEveryState == [][C22_AnyStatus]_vars

C22_Active ==
  \A w \in Workers :
    (ViewerFinds(w) /\ ViewedRow(w).status # "trashed")
    => (ViewerAdmitted(w) <=> OwnerOrRecipient(w))

C22_Trashed ==
  \A w \in Workers :
    (ViewerFinds(w) /\ ViewedRow(w).status = "trashed") => ~ViewerAdmitted(w)

\* C22: the check of openUserDocument, downloadUserDoc and openViaStoredShare
\* admits requester R to an existing document that is not trashed if and only
\* if R is its owner or R's id is in its sharedTo; a trashed document admits
\* nobody, its owner included.
C22_ViewerIffUnlessTrashed == [][C22_Active /\ C22_Trashed]_vars

\* A recipient who is not the owner has downloaded the document.
C22_Witness ==
  \E w \in Workers :
    /\ At(w, "download", "done")
    /\ reqs[w].snap # <<>>
    /\ reqs[w].uid # Cur(reqs[w]).uid
    /\ reqs[w].uid \in Cur(reqs[w]).sharedTo
    /\ reqs[w].resp.code = 302

\* The owner is refused their own document while it is in the trash.
OwnerRefusedTrashedDocument ==
  \E w \in Workers :
    /\ At(w, "openShared", "done")
    /\ reqs[w].ids[1] \in DOMAIN docs
    /\ docs[reqs[w].ids[1]].uid = reqs[w].uid
    /\ reqs[w].resp.error = "in_trash"

\* ----------------------------------------------------------------- C23
\* The answer of a handler as the client sees it.
Seen(resp) == [code |-> resp.code, error |-> resp.error, viewUrl |-> resp.viewUrl]

\* The answer of viewer path op for an id that names no document.
NotFoundAnswer(op) ==
  IF op = "open" THEN [code |-> 500, error |-> "type_error", viewUrl |-> NoUrl]
  ELSE IF op = "download"
  THEN [code |-> 400, error |-> "not_found_or_unauthorized", viewUrl |-> NoUrl]
  ELSE [code |-> 404, error |-> "doc_not_found", viewUrl |-> NoUrl]

\* A viewer request of w arrives for an id that names no document: its answer
\* is the not-found answer of its path.
C23_Missing ==
  \A w \in Workers :
    (reqs[w].pc = "idle" /\ reqs'[w].op \in ViewerOps /\ reqs'[w].ids[1] \notin DOMAIN docs)
    => reqs'[w].pc = "done" /\ Seen(reqs'[w].resp) = NotFoundAnswer(reqs'[w].op)

\* A viewer request of w arrives for a document that exists, from a requester
\* who is neither its owner nor in its sharedTo: its answer is the same one.
C23_Refused ==
  \A w \in Workers :
    (ViewerFinds(w) /\ ~OwnerOrRecipient(w))
    => reqs'[w].pc = "done" /\ Seen(reqs'[w].resp) = NotFoundAnswer(reqs'[w].op)

\* C23: to a requester who is neither the owner nor in sharedTo, each of
\* openUserDocument, downloadUserDoc and openViaStoredShare answers for an
\* existing document exactly as it answers for an id that names no document.
C23_RefusalLooksLikeNotFound == [][C23_Missing /\ C23_Refused]_vars

\* ----------------------------------------------------------------- C24
\* removeShare in owner mode answers with success in this step.
OwnerRevokeSucceeds(w) ==
  /\ At(w, "revoke", "rv_clear")
  /\ reqs[w].mode = "owner"
  /\ reqs'[w].pc = "done"
  /\ reqs'[w].resp.code = 200

\* The 'Anyone with link' shares of document id in table tbl.
PublicSharesOf(tbl, id) ==
  { sid \in DOMAIN tbl : tbl[sid].doc_id = id /\ tbl[sid].share_type # "restricted" }

C24_Step ==
  \A w \in Workers :
    OwnerRevokeSucceeds(w)
    => LET id == reqs[w].ids[1]
           before == hist[w].docs[id].sharedTo
       IN  /\ id \in DOMAIN docs'
           /\ docs'[id].sharedTo = IF reqs[w].recipients = {} THEN {}
                                   ELSE before \ reqs[w].recipients
           /\ PublicSharesOf(shares', id) = {}

\* C24: when removeShare in owner mode answers with success, sharedTo is empty
\* (without a recipients list) or has lost exactly the listed ids (with one),
\* and no share of the document other than restricted ones is left in the
\* table, so that no link issued before opens the document any more.
C24_OwnerRevokeClears == [][C24_Step]_vars

\* ----------------------------------------------------------------- C25
\* The step belongs to a removal in recipient mode: its select has returned a
\* row and the mode, given or inferred, is "recipient".
RecipientRevokeStep(w) ==
  /\ Acted(w)
  /\ reqs'[w].op = "revoke" /\ reqs'[w].mode = "recipient" /\ reqs'[w].snap # <<>>

RecipientRevokeSucceeds(w) ==
  /\ RecipientRevokeStep(w)
  /\ reqs'[w].pc = "done" /\ reqs'[w].resp.code = 200

Wrote(r) == \E i \in DOMAIN r.calls : r.calls[i].call \notin {"select"}

C25_Step ==
  \A w \in Workers : RecipientRevokeStep(w) =>
    LET r == reqs'[w]
        id == r.ids[1]
        before == hist'[w].docs[id]
    IN  /\ shares' = shares /\ nextShare' = nextShare
        /\ storage' = storage
        /\ DOMAIN docs' = DOMAIN docs
        /\ \A d \in DOMAIN docs : d # id => docs'[d] = docs[d]
        /\ docs'[id] \in {docs[id], [docs[id] EXCEPT !.sharedTo = @ \ {r.uid}]}
        /\ RecipientRevokeSucceeds(w) =>
              /\ docs'[id] = [before EXCEPT !.sharedTo = @ \ {r.uid}]
              /\ r.uid \notin before.sharedTo =>
                    /\ r.resp.skipped
                    /\ ~Wrote(r)
                    /\ docs'[id] = before

RecipientsAdded(w) ==
  /\ reqs[w].pc \in {"st_users", "st_update"} /\ Acted(w)
  /\ LastCall(reqs'[w]).ok
  /\ reqs'[w].pc \notin {"st_users", "st_update"}

\* The set the operation is said to leave in sharedTo.
AddedTo(S, emails) == S \cup MatchedUsers(emails)

C26_Union ==
  \A w \in Workers : RecipientsAdded(w) =>
    LET r == reqs[w]
        id == r.ids[1]
        before == hist[w].docs[id]
    IN  /\ before.uid = r.uid
        /\ docs' = [hist[w].docs EXCEPT ![id].sharedTo = AddedTo(before.sharedTo, r.emails)]
        /\ before.sharedTo \subseteq docs'[id].sharedTo
        /\ AddedTo(docs'[id].sharedTo, r.emails) = docs'[id].sharedTo
        /\ \A other \in EmailLists :
              AddedTo(AddedTo(before.sharedTo, r.emails), other)
                = AddedTo(AddedTo(before.sharedTo, other), r.emails)

\* The request went through sharedTo and none of its adapter calls failed.
WentThroughSharedTo(r) ==
  /\ r.pc = "done" /\ r.op \in {"share", "recipients"}
  /\ \E i \in DOMAIN r.calls : r.calls[i].call = "users"
  /\ \A i \in DOMAIN r.calls : r.calls[i].ok

C26_Reported ==
  \A w \in Workers : WentThroughSharedTo(reqs[w]) =>
    UnresolvedEmails(reqs[w].emails) \subseteq reqs[w].resp.unresolved

\* The part of C26 about sharedTo alone: the owner's request leaves in sharedTo
\* the union of what was there and the ids the e-mails resolve to.
C26_UnionOnly == [][C26_Union]_vars

\* C26: adding recipients by the owner leaves in sharedTo the union of its
\* previous value and the ids the e-mails resolve to (so that repeating the
\* request changes nothing, two lists give the same set in either order and no
\* member is removed), and the response names every e-mail that resolved to no
\* user.
C26_RecipientsUnionAndUnresolved == [][C26_Union]_vars /\ []C26_Reported

\* ----------------------------------------------------------------- C27
BatchOps == {"trash", "restore", "permdelete"}

\* A request over an id list: the batch route of trash, and restore and
\* permanent delete, which take a single id as a list of one.
IsBatch(r) == r.op \in BatchOps /\ ~r.single

ListedIds(r) == { r.ids[i] : i \in DOMAIN r.ids }

\* The documents of the list that exist in db and belong to the caller.
ResolvedIn(db, r) == { id \in ListedIds(r) : id \in DOMAIN db /\ db[id].uid = r.uid }

NotResolved(db, r) == SelectSeq(r.ids, LAMBDA id : id \notin ResolvedIn(db, r))

SnapIds(r) == { r.snap[i].id : i \in DOMAIN r.snap }

\* The request arrives and its select succeeds.
C27_Arrival ==
  \A w \in Workers :
    (reqs[w].pc = "idle" /\ IsBatch(reqs'[w]) /\ reqs'[w].calls[1].ok) =>
      LET r == reqs'[w]
      IN  IF ResolvedIn(docs, r) = {}
          THEN /\ r.pc = "done" /\ r.resp.code = 404
               /\ Len(r.calls) = 1
               /\ storage' = storage /\ docs' = docs
          ELSE /\ r.missing = NotResolved(docs, r)
               /\ SnapIds(r) = ResolvedIn(docs, r)

\* The handler keeps the list, the rows and the missing ids it started with.
C27_Kept ==
  \A w \in Workers :
    (IsBatch(reqs[w]) /\ reqs[w].pc \notin {"idle", "done"}) =>
      /\ reqs'[w].ids = reqs[w].ids /\ reqs'[w].missing = reqs[w].missing
      /\ SnapIds(reqs'[w]) = SnapIds(reqs[w])

\* What the handler has collected and what it answers.
C27_Answer ==
  \A w \in Workers :
    (IsBatch(reqs[w]) /\ reqs[w].pc # "idle") =>
      /\ \A i \in DOMAIN reqs[w].results : reqs[w].results[i].id \in SnapIds(reqs[w])
      /\ (reqs[w].pc = "done" /\ reqs[w].resp.code = 200) =>
            /\ reqs[w].resp.missing = reqs[w].missing
            /\ reqs[w].resp.results = reqs[w].results
      /\ (reqs[w].pc = "done" /\ reqs[w].resp.code = 404) =>
            \A i \in DOMAIN reqs[w].calls : reqs[w].calls[i].call = "select"

\* C27: for a batch trash, restore or permanent delete of id list L by caller
\* U, missingIds is exactly the ids of L that do not exist or are not owned by
\* U, results has entries only for documents of L owned by U, and when no id
\* of L resolves the request is answered 404 with no storage or metadata call.
C27_BatchMissingAndResults == [][C27_Arrival /\ C27_Kept]_vars /\ []C27_Answer

\* A batch answered with an id missing and an entry for a document it resolved.
C27_Witness ==
  \E w \in Workers :
    /\ IsBatch(reqs[w]) /\ reqs[w].pc = "done" /\ reqs[w].resp.code = 200
    /\ reqs[w].op = "trash"
    /\ reqs[w].resp.missing # <<>>
    /\ \E i \in DOMAIN reqs[w].resp.results : reqs[w].resp.results[i].ok
    /\ \E i \in DOMAIN reqs[w].resp.missing :
          LET id == reqs[w].resp.missing[i]
          IN  id \in DOMAIN docs /\ docs[id].uid # reqs[w].uid

\* ----------------------------------------------------------------- C28
\* The select of the batch has returned the rows and the loop is running.
InLoop(w) == IsBatch(reqs[w]) /\ reqs[w].pc \notin {"idle", "done"}

\* The one response of a batch that resolved rows: 200 with the results, where
\* every row has an entry.
Aggregated(r) ==
  /\ r.pc = "done" /\ r.resp.code = 200
  /\ r.resp.results = r.results
  /\ \A id \in SnapIds(r) : \E i \in DOMAIN r.results : r.results[i].id = id

\* A batch that got rows never ends in anything but the aggregated response.
C28_NeverAborts ==
  \A w \in Workers :
    (IsBatch(reqs[w]) /\ reqs[w].pc = "done" /\ reqs[w].snap # <<>>) => Aggregated(reqs[w])

\* Inside the loop the entries are only added to, in the order of the rows.
C28_Collects ==
  \A w \in Workers :
    (InLoop(w) /\ Acted(w)) =>
      /\ Len(reqs'[w].results) >= Len(reqs[w].results)
      /\ SubSeq(reqs'[w].results, 1, Len(reqs[w].results)) = reqs[w].results
      /\ reqs'[w].idx >= reqs[w].idx

\* C28: in a batch trash, restore or permanent delete, an error, a skip or a
\* warning on one document does not end the request: the loop goes on to the
\* remaining rows, every row the select returned eventually has an entry in
\* results and the request ends with the one 200 response that carries them.
C28_BatchRunsToTheEnd ==
  /\ []C28_NeverAborts
  /\ [][C28_Collects]_vars
  /\ \A w \in Workers : InLoop(w) ~> Aggregated(reqs[w])

\* A batch over two documents has ended: the first got an error and the second
\* was moved all the same.
C28_Witness ==
  \E w \in Workers :
    /\ IsBatch(reqs[w]) /\ Aggregated(reqs[w]) /\ Len(reqs[w].snap) = 2
    /\ \E i, j \in DOMAIN reqs[w].results :
          /\ i < j
          /\ reqs[w].results[i].id = reqs[w].snap[1].id /\ reqs[w].results[i].error # ""
          /\ reqs[w].results[j].id = reqs[w].snap[2].id /\ reqs[w].results[j].ok

\* ----------------------------------------------------------------- C29
\* The access at w is about to read the document of its share, and the row is
\* gone.
DocumentGone(w) ==
  At(w, "access", "ac_doc") /\ reqs[w].grant.doc_id \notin DOMAIN docs

C29_Step ==
  \A w \in Workers :
    /\ (DocumentGone(w) /\ Acted(w)) =>
          /\ reqs'[w].pc = "done" /\ reqs'[w].resp.code = 404
          /\ reqs'[w].resp.viewUrl = NoUrl
    /\ (reqs'[w].op = "access" /\ Acted(w) /\ reqs'[w].pc = "done"
           /\ reqs'[w].resp.viewUrl # NoUrl) =>
          /\ reqs'[w].grant.doc_id \in DOMAIN docs
          /\ reqs'[w].grant.doc_id \in DOMAIN docs'

\* C29: the access of a share returns no URL when the row of the share's
\* document no longer exists, be the stored URL expired or not: the answer is
\* 404, and every answer that carries a URL was given while the row existed.
C29_NoUrlWithoutDocument == [][C29_Step]_vars

\* The document of a public share was deleted for good, and the access of the
\* share, its stored URL not yet expired, was answered 404.
C29_Witness ==
  \E w \in Workers :
    /\ reqs[w].op = "access" /\ reqs[w].pc = "done"
    /\ reqs[w].resp.code = 404 /\ reqs[w].resp.error = "doc_not_found"
    /\ reqs[w].grant.share_type # "restricted"
    /\ reqs[w].grant.signed_url # NoUrl
    /\ reqs[w].grant.expires_at > now
    /\ reqs[w].grant.doc_id \notin DOMAIN docs

\* ----------------------------------------------------------------- C30
OwnerViewOps == {"open", "download"}

\* The URL createSignedUrl mints at second t for the object at key k.
MintedNow(k, t) == [key |-> k, minted |-> t, ttl |-> VIEW_TTL_SECONDS]

\* The owner's open or download of an active document arrives: it is let
\* through to the signing.
C30_Arrival ==
  \A w \in Workers :
    (/\ reqs[w].pc = "idle" /\ reqs'[w].op \in OwnerViewOps
     /\ reqs'[w].ids[1] \in DOMAIN docs
     /\ docs[reqs'[w].ids[1]].uid = reqs'[w].uid
     /\ docs[reqs'[w].ids[1]].status = "active") =>
       /\ reqs'[w].pc = "gs_sign"
       /\ reqs'[w].src = docs[reqs'[w].ids[1]].path_of_file

\* The signing of the owner's request, the object live at the key: the
\* request is answered with the URL minted in this step.
OwnerSigns(w, op) ==
  /\ At(w, op, "gs_sign") /\ Acted(w)
  /\ Cur(reqs[w]).uid = reqs[w].uid
  /\ Live(storage, reqs[w].src)

C30_SignFor(op) ==
  \A w \in Workers : OwnerSigns(w, op) =>
    /\ reqs'[w].pc = "done"
    /\ reqs'[w].resp.code \in {200, 302}
    /\ reqs'[w].resp.viewUrl = MintedNow(reqs[w].src, now)
    /\ \A sid \in DOMAIN shares : reqs'[w].resp.viewUrl # shares[sid].signed_url

\* The part of C30 about downloadUserDoc alone.
C30_DownloadMintsFresh == [][C30_Arrival /\ C30_SignFor("download")]_vars

\* C30: the owner's open and the owner's download of an active document whose
\* object is live at its key both succeed and return a URL signed during the
\* request for 10 minutes, never the URL stored on a share.
C30_OwnerGetsFreshUrl ==
  [][C30_Arrival /\ \A op \in OwnerViewOps : C30_SignFor(op)]_vars

\* ----------------------------------------------------------------- C31
\* Every upload stores its own content token, the id of the row it inserts:
\* the keys at which the object of document id is live.
KeysHolding(st, id) == { k \in DOMAIN st : st[k] = id }

\* The key the record names for its status.
NamedKey(row) == IF row.status = "trashed" THEN row.trash_path ELSE row.path_of_file

\* C31: when requests run one at a time and no adapter call fails, after each
\* completed request the object of every document is live at exactly one key,
\* which is storageKey when the status is active and trashKey when it is
\* trashed.
C31_OneKeyMatchingStatus ==
  Quiet => \A id \in DOMAIN docs : KeysHolding(storage, id) = {NamedKey(docs[id])}

\* The same for the first document while it is the only one.
C31_WhileAlone ==
  (Quiet /\ DOMAIN docs = {1}) => KeysHolding(storage, 1) = {NamedKey(docs[1])}

\* ----------------------------------------------------------------- C32
\* An object is live at a key the record names.
HasNamedCopy(st, row) ==
  \/ Live(st, row.path_of_file)
  \/ (row.trash_path # NoKey /\ Live(st, row.trash_path))

MovingOps == {"trash", "restore", "rename"}

\* The handler at w finishes the document it is working on.
FinishesItem(w) ==
  /\ reqs[w].op \in MovingOps /\ reqs[w].pc \notin {"idle", "done"}
  /\ Acted(w) /\ ItemOver(w)

C32_Step ==
  \A w \in Workers : FinishesItem(w) =>
    LET id == Cur(reqs[w]).id
    IN  (id \in DOMAIN hist[w].docs /\ HasNamedCopy(hist[w].storage, hist[w].docs[id]))
          => (id \in DOMAIN docs' /\ HasNamedCopy(storage', docs'[id]))

\* C32: with requests run one at a time and any adapter failures, trash,
\* restore and rename, their rollback paths included, leave a document that had
\* a live object at its storageKey or its trashKey with a live object at its
\* storageKey or its trashKey.
C32_NeverWithoutNamedCopy == [][C32_Step]_vars

\* The same for the steps in which the last adapter call of the handler
\* succeeded.
C32_WhenLastCallSucceeds ==
  [][\A w \in Workers : (FinishesItem(w) /\ LastCall(reqs'[w]).ok) =>
       LET id == Cur(reqs[w]).id
       IN  (id \in DOMAIN hist[w].docs /\ HasNamedCopy(hist[w].storage, hist[w].docs[id]))
             => (id \in DOMAIN docs' /\ HasNamedCopy(storage', docs'[id]))]_vars

\* ----------------------------------------------------------------- C33
\* What a trash that reported db_update_failed leaves of document id: the row
\* active, nothing at its storage key, the object at the trash key of it.
LeftByTrashWarning(h, id) ==
  /\ id \in DOMAIN h.docs
  /\ h.docs[id].status = "active"
  /\ ~Live(h.storage, h.docs[id].path_of_file)
  /\ Live(h.storage, TrashKeyOf(h.docs[id].uid, h.docs[id].path_of_file))

\* What a restore that reported db_update_failed leaves: the row trashed, the
\* object at its storage key, nothing at its trash key.
LeftByRestoreWarning(h, id) ==
  /\ id \in DOMAIN h.docs
  /\ h.docs[id].status = "trashed" /\ h.docs[id].trash_path # NoKey
  /\ Live(h.storage, h.docs[id].path_of_file)
  /\ ~Live(h.storage, h.docs[id].trash_path)

\* No adapter call of the item the handler at w finishes failed for a reason
\* of its own: a call of it that failed was a probe or a copy of a key that
\* held nothing.
NoFurtherFailure(w) ==
  \A i \in DOMAIN reqs'[w].calls :
    LET c == reqs'[w].calls[i]
    IN  (c.item = reqs[w].idx /\ ~c.ok) =>
          (c.call \in {"sign", "copy"} /\ ~Live(hist[w].storage, c.a))

Retried(w, op) ==
  /\ At(w, op, reqs[w].pc) /\ reqs[w].pc \notin {"idle", "done"}
  /\ Acted(w) /\ ItemOver(w) /\ NoFurtherFailure(w)
  /\ Cur(reqs[w]).uid = reqs[w].uid

C33_TrashAgain ==
  \A w \in Workers :
    (Retried(w, "trash") /\ LeftByTrashWarning(hist[w], Cur(reqs[w]).id)) =>
      LET id == Cur(reqs[w]).id
      IN  /\ docs'[id].status = "trashed"
          /\ docs'[id].trash_path # NoKey /\ Live(storage', docs'[id].trash_path)

C33_RestoreAgain ==
  \A w \in Workers :
    (Retried(w, "restore") /\ LeftByRestoreWarning(hist[w], Cur(reqs[w]).id)) =>
      LET id == Cur(reqs[w]).id
      IN  /\ docs'[id].status = "active"
          /\ Live(storage', docs'[id].path_of_file)

\* C33: after a trash or a restore reported the warning db_update_failed, the
\* same request sent again, with no further adapter failure, completes the
\* transition: the row ends trashed with a live trash key after the trash,
\* active with a live storage key after the restore.
C33_RetryCompletes == [][C33_TrashAgain /\ C33_RestoreAgain]_vars

\* The two halves, each on its own.
C33_TrashRetryCompletes == [][C33_TrashAgain]_vars

C33_RestoreRetryCompletes == [][C33_RestoreAgain]_vars

\* ----------------------------------------------------------------- C34
\* The keys a record names.
NamedKeys(row) ==
  {row.path_of_file} \cup (IF row.trash_path # NoKey THEN {row.trash_path} ELSE {})

C34_KeysApart ==
  \A i, j \in DOMAIN docs : i # j => NamedKeys(docs[i]) \cap NamedKeys(docs[j]) = {}

LifecycleOps == MovingOps \cup {"permdelete"}

\* A step of a lifecycle handler on its document leaves the objects of the
\* other documents where and as they are.
C34_OthersUntouched ==
  \A w \in Workers :
    (reqs[w].op \in LifecycleOps /\ reqs[w].pc \notin {"idle", "done"} /\ Acted(w)) =>
      \A k \in DOMAIN storage :
        storage[k] # Cur(reqs[w]).id => (k \in DOMAIN storage' /\ storage'[k] = storage[k])

\* C34: after any sequence of upload, trash, restore, rename and permanent
\* delete by one user no two records name the same key, as storage key or as
\* trash key, and no lifecycle step on one document overwrites or removes the
\* object of another, also when a file is uploaded under the name of a
\* document that is in the trash.
C34_NoKeyShared == []C34_KeysApart /\ [][C34_OthersUntouched]_vars

\* No file has been uploaded under the name of a document in the trash.
C34_NoUploadOverTrashedName ==
  ~\E i, j \in DOMAIN docs :
     /\ i < j /\ docs[i].status = "trashed" /\ docs[j].status = "active"
     /\ docs[i].path_of_file = docs[j].path_of_file
     /\ docs[i].fileName = uploaded[i].fileName /\ docs[j].fileName = uploaded[j].fileName

\* ----------------------------------------------------------------- C35
\* The entries of the response that are about document id.
EntriesOf(resp, id) == { i \in DOMAIN resp.results : resp.results[i].id = id }

BatchAnswered(w) == IsBatch(reqs[w]) /\ reqs[w].pc = "done" /\ reqs[w].resp.code = 200

C35_OneEach(w) ==
  \A id \in SnapIds(reqs[w]) : Cardinality(EntriesOf(reqs[w].resp, id)) = 1

C35_OkMeansDeleted(w) ==
  reqs[w].op = "permdelete" =>
    \A i \in DOMAIN reqs[w].resp.results :
      reqs[w].resp.results[i].ok => reqs[w].resp.results[i].id \notin DOMAIN docs

\* C35: the response of a batch trash, restore or permanent delete has exactly
\* one entry for each document it resolved, and an entry with ok of a
\* permanent delete means that the row of the document was deleted.
C35_OneOutcomePerDocument ==
  \A w \in Workers : BatchAnswered(w) => (C35_OneEach(w) /\ C35_OkMeansDeleted(w))

\* The same for trash alone.
C35_TrashOneEntryEach ==
  \A w \in Workers : (BatchAnswered(w) /\ reqs[w].op = "trash") => C35_OneEach(w)

\* The same for restore alone.
C35_RestoreOneEntryEach ==
  \A w \in Workers : (BatchAnswered(w) /\ reqs[w].op = "restore") => C35_OneEach(w)

\* ----------------------------------------------------------------- C36
\* The document a request that returns a URL is about.
DocOf(r) == IF r.op = "access" THEN r.grant.doc_id ELSE r.ids[1]

\* The step in which the handler of one of ops answers with a URL.
ReturnsUrl(w, ops) ==
  /\ Acted(w) /\ reqs'[w].op \in ops
  /\ reqs'[w].pc = "done" /\ reqs'[w].resp.viewUrl # NoUrl

StoredUrlOps == {"access", "openShared"}

C36_Step ==
  \A w \in Workers : ReturnsUrl(w, StoredUrlOps) =>
    LET id == DocOf(reqs'[w])
        url == reqs'[w].resp.viewUrl
    IN  /\ id \in DOMAIN docs
        /\ url.key = docs[id].path_of_file
        /\ Live(storage, url.key)

\* C36: a stored signed URL that the access of a share or the opening through
\* the stored share returns was minted for the key the document has now, and
\* an object is live at that key, also after the document was renamed.
C36_StoredUrlIsCurrent == [][C36_Step]_vars

\* The same while the document is active and has the name it was uploaded with.
C36_WhileNeverMoved ==
  [][\A w \in Workers :
       (ReturnsUrl(w, StoredUrlOps) /\ DocOf(reqs'[w]) \in DOMAIN docs
          /\ docs[DocOf(reqs'[w])] = [uploaded[DocOf(reqs'[w])] EXCEPT
                                         !.sharedTo = docs[DocOf(reqs'[w])].sharedTo,
                                         !.sharedFrom = docs[DocOf(reqs'[w])].sharedFrom])
         => (reqs'[w].resp.viewUrl.key = docs[DocOf(reqs'[w])].path_of_file
               /\ Live(storage, reqs'[w].resp.viewUrl.key))]_vars

\* C36 for the documents that are active when the URL is returned (what is
\* returned for a trashed document is C37): the stored URL was minted for the
\* key the document has now and an object is live at it.
C36_ForActiveDocuments ==
  [][\A w \in Workers :
       (ReturnsUrl(w, StoredUrlOps) /\ DocOf(reqs'[w]) \in DOMAIN docs
          /\ docs[DocOf(reqs'[w])].status = "active")
         => (reqs'[w].resp.viewUrl.key = docs[DocOf(reqs'[w])].path_of_file
               /\ Live(storage, reqs'[w].resp.viewUrl.key))]_vars

\* ----------------------------------------------------------------- C37
AccessOps == {"open", "download", "openShared", "access"}

C37_StepFor(ops) ==
  \A w \in Workers : ReturnsUrl(w, ops) =>
    LET id == DocOf(reqs'[w])
    IN  id \in DOMAIN docs => docs[id].status # "trashed"

\* C37: no request that opens, downloads, opens through the stored share or
\* accesses a share returns a URL for a document whose status is trashed.
C37_NoUrlForTrashed == [][C37_StepFor(AccessOps)]_vars

\* The same without the access of a share.
C37_ViewersRefuseTrashed == [][C37_StepFor(AccessOps \ {"access"})]_vars

\* ----------------------------------------------------------------- C38
\* Both requests are over: the record, if it is still there, names for its
\* status a key at which the object is live, and the object is live nowhere
\* else.
C38_EndsConsistent ==
  Quiet => \A id \in DOMAIN docs : KeysHolding(storage, id) = {NamedKey(docs[id])}

\* No step deletes a record whose status is active.
C38_NoActiveDeleted ==
  \A id \in DOMAIN docs : id \notin DOMAIN docs' => docs[id].status = "trashed"

\* C38: when two lifecycle requests on the same document run concurrently and
\* no adapter call fails, every interleaving of their adapter calls ends with
\* the record, if it still exists, naming a key at which the object is live,
\* the object live at that key only, and no active record deleted.
C38_RacesEndConsistent == []C38_EndsConsistent /\ [][C38_NoActiveDeleted]_vars

\* The two parts, each on its own.
C38_OnlyEndsConsistent == []C38_EndsConsistent

C38_OnlyNoActiveDeleted == [][C38_NoActiveDeleted]_vars

\* ----------------------------------------------------------------- C39
\* The ids a removal takes out of the set S that sharedTo holds.
RemovedBy(r, S) ==
  IF r.mode = "owner" THEN (IF r.recipients # {} THEN r.recipients ELSE S)
  ELSE {r.uid}

\* The write of sharedTo by the handler at w succeeds in this step.
WritesSharedTo(w, pc) == reqs[w].pc = pc /\ Acted(w) /\ LastCall(reqs'[w]).ok

C39_Step ==
  \A w \in Workers :
    LET id == reqs[w].ids[1]
    IN  /\ WritesSharedTo(w, "st_update") =>
              docs'[id].sharedTo = docs[id].sharedTo \cup MatchedUsers(reqs[w].emails)
        /\ WritesSharedTo(w, "rv_update") =>
              docs'[id].sharedTo = docs[id].sharedTo \ RemovedBy(reqs[w], docs[id].sharedTo)

\* C39: when requests that add recipients and requests that revoke run
\* concurrently on one document, each write of sharedTo adds to, or takes out
\* of, what sharedTo holds at the time of the write: no recipient another
\* request has added is lost and none another request has removed comes back.
C39_NoLostUpdate == [][C39_Step]_vars

\* ----------------------------------------------------------------- C40
\* A request that is over has reached exactly one outcome; one that is not
\* over has reached none.
C40_OneOutcome(r) ==
  /\ r.pc = "done" => Len(r.outcomes) = 1
  /\ r.pc # "done" => r.outcomes = <<>>

C40_EndsWithOne == \A w \in Workers : C40_OneOutcome(reqs[w])

\* The insert of the metadata row by the upload at w fails in this step.
InsertFails(w) == At(w, "upload", "up_insert") /\ Acted(w) /\ ~LastCall(reqs'[w]).ok

\* After a failed insert the 201 is not reached and the object the upload has
\* put is not left in the bucket without a row.
C40_FailedInsert ==
  \A w \in Workers :
    InsertFails(w) =>
      /\ \A i \in DOMAIN reqs'[w].outcomes : reqs'[w].outcomes[i] # 201
      /\ ~Live(storage', reqs[w].dst)

\* C40: every request ends with exactly one outcome, one error passed to the
\* error handler or one success response, never both and never none; an upload
\* whose insert of the metadata row fails does not reach the 201 response and
\* leaves no uploaded object without a metadata row.
C40_ExactlyOneOutcome ==
  /\ []C40_EndsWithOne
  /\ [][C40_FailedInsert]_vars
  /\ \A w \in Workers : (reqs[w].pc \notin {"idle", "done"}) ~> (reqs[w].pc = "done")

\* The same for every handler but the upload.
C40_OtherHandlers ==
  /\ [](\A w \in Workers : reqs[w].op # "upload" => C40_OneOutcome(reqs[w]))
  /\ \A w \in Workers : (reqs[w].pc \notin {"idle", "done"}) ~> (reqs[w].pc = "done")

\* The parts on their own.
C40_OnlyEndsWithOne == []C40_EndsWithOne

C40_OnlyFailedInsert == [][C40_FailedInsert]_vars

====
